---- MODULE Spec2Model ----
(***************************************************************************)
(* A model of the ingestion control plane of the lakehouse repository:     *)
(*   - IngestionLedgerStore  (src/src/ingestion/ledger_store.py)           *)
(*   - BundleLayout          (src/src/ingestion/bundle_layout.py)          *)
(*   - execute_extraction_task (src/src/ingestion/extraction_task.py)      *)
(*   - Orchestrator          (src/src/ingestion/orchestrator.py)           *)
(*   - FastCSVExtractor      (src/src/ingestion/extract.py)                *)
(* Ten specifications share the variables:                                 *)
(*   SpecStore  commit_batch called by any client of the store             *)
(*   SpecFS     extraction tasks and cleanup helpers on one staging tree   *)
(*   SpecSolo   one extraction task at a time, with locked promotions      *)
(*   SpecManifest  two extraction tasks, the manifest written in two steps *)
(*   Spec       Orchestrator.run, run after run, with process kills        *)
(*   SpecRun    Orchestrator.run over more files than workers, no kill     *)
(*   SpecHeader FastCSVExtractor._get_clean_header on one header line      *)
(*   SpecStream FastCSVExtractor._stream_cleaned_lines on one raw file     *)
(*   SpecRunLive  SpecRun with fair scheduling of the run and its workers  *)
(*   SpecLater  runs started again and again after a checkpoint was written*)
(***************************************************************************)
EXTENDS Integers, Sequences, FiniteSets, TLC

VARIABLES
    \* ---- ledger store (DuckDB / DuckLake catalog) ----
    loaded_files,          \* table ops.loaded_files, a sequence of rows
    loaded_file_targets,   \* table ops.loaded_file_targets, a sequence of rows
    target_tables,         \* target table name -> [exists, schema, rows]
    txPc,                  \* position inside commit_batch
    txSnap,                \* database state at BEGIN TRANSACTION
    call,                  \* arguments and locals of the running commit_batch
    before,                \* database state when commit_batch was entered
    outcome,               \* how the last commit_batch call ended
    failed_at,             \* step of commit_batch at which the last failure rose
    clock,                 \* utc_now_naive(), a counter
    \* ---- staging tree (BundleLayout) ----
    fs,                    \* [dirs, tmp, final, trash]
    \* ---- extraction tasks (execute_extraction_task in a worker process) ----
    task,                  \* task slot -> [pc, key, rid, attempt, rows, reused,
                           \*               final0, error]
    submitted,             \* tasks submitted so far in SpecFS
    \* ---- a process running BundleLayout's cleanup helpers ----
    jan,                   \* [pc, rid, todo, cur, used]
    \* ---- Orchestrator ----
    raw,                   \* signatures of the files in data_dir
    spec_hash,             \* calculate_spec_hash of the loaded specification
    run,                   \* locals of Orchestrator.run and its position
    hist,                  \* how the runs so far ended
    \* ---- FastCSVExtractor._get_clean_header ----
    raw_headers,           \* the tokens of the header line of the raw file
    extractor              \* [spec, pc, unique_phys_headers, final_headers,
                           \*  file, line_no, expected_number_of_columns,
                           \*  buffer, yielded, yielded_from]

storeVars == <<loaded_files, loaded_file_targets, target_tables, txPc, txSnap,
               call, before, outcome, failed_at, clock>>

fsVars == <<fs, task, submitted, jan>>

orchVars == <<raw, spec_hash, run, hist>>

extractVars == <<raw_headers, extractor>>

nonStoreVars == <<fsVars, orchVars, extractVars>>

nonFsVars == <<storeVars, orchVars, extractVars>>

nonExtractVars == <<storeVars, fsVars, orchVars>>

vars == <<storeVars, fsVars, orchVars, extractVars>>

(***************************************************************************)
(* Domain model                                                            *)
(***************************************************************************)
Sources    == {"s"}
Signatures == {"f1", "f2", "f3", "f4"}
SpecHashes == {"h1", "h2"}
RunIds     == {"rA", "rB"}

\* dataclass FileKey: equal iff all three fields are equal
FileKey == [source_name : Sources,
            raw_file_metadata_signature : Signatures,
            spec_hash : SpecHashes]

MkKey(sig, h) == [source_name |-> "s", raw_file_metadata_signature |-> sig, spec_hash |-> h]

K1 == MkKey("f1", "h1")
K2 == MkKey("f2", "h1")
K3 == MkKey("f3", "h1")
K4 == MkKey("f4", "h1")

\* dataclass ExtractionResult: its fields
ExtractionResult_fields == {"extracted_bundle_path", "rows_extracted_total"}

NoValue == "none"

(***************************************************************************)
(* Bounds                                                                  *)
(***************************************************************************)
MaxCalls == 2      \* commit_batch calls in one behaviour of SpecStore

\* OrchestrationConfig.max_parallel_extractions, a small value of it
max_parallel_extractions == 2

\* OrchestrationConfig.batch_loading_size, a small value of it
batch_loading_size == 2

MaxRuns == 2       \* orchestrator runs in one behaviour of Spec

MaxTasks == 3      \* extraction tasks submitted in one behaviour of SpecFS

MaxHeaderLen == 3  \* tokens in the header line of a raw file

MaxLines == 3      \* physical lines after the header line of a raw file

(***************************************************************************)
(* Bundle layout: the staging tree                                         *)
(*   staging_root/_tmp/<source>/<run_id>/<bundle>   temporary bundles      *)
(*   staging_root/_trash/<bundle>_<uuid>            trashed bundles        *)
(*   staging_root/<source>/<bundle>                 final bundles          *)
(* A bundle directory is the set of the files it holds, or Absent.  The    *)
(* bundle name is a digest of the FileKey's signature and spec hash; the   *)
(* model takes one bundle name per FileKey.                                *)
(***************************************************************************)
DataFile == "data.parquet"
ManifestTmp == "bundle.json.tmp"
Manifest == "bundle.json"
\* the same two files while a write_text of the payload is under way
ManifestTmpPartial == "bundle.json.tmp (partial)"
ManifestPartial == "bundle.json (partial)"
BundleFiles == {DataFile, ManifestTmp, Manifest, ManifestTmpPartial, ManifestPartial}
Absent == {"<absent>"}

TmpRoot == "_tmp"
TmpSource == "_tmp/s"
TrashRoot == "_trash"
SourceDir == "s"
StagingRoot == "<root>"
RunDir(rid) == IF rid = "rA" THEN "_tmp/s/rA" ELSE "_tmp/s/rB"

\* get_tmp_bundle_directory_for(key, claim_token) / get_bundle_directory_for(key)
TmpPath(rid, k) == <<rid, k>>

EmptyFs == [dirs |-> {}, tmp |-> [p \in RunIds \X FileKey |-> Absent],
            final |-> [k \in FileKey |-> Absent], trash |-> 0]

\* a completeness test that accepts any existing directory
IsCompleteAnyDir(content) == content # Absent

\* is_complete_bundle_dir: the manifest path exists
IsCompleteBundleDir(content) ==
    content # Absent /\ content \cap {Manifest, ManifestPartial} # {}

Parent(d) == CASE d = TmpSource -> TmpRoot
               [] d \in {RunDir("rA"), RunDir("rB")} -> TmpSource
               [] OTHER -> StagingRoot

\* _is_protected_dir: the staging root, and names that begin with "_"
IsProtectedDir(d) == d = StagingRoot \/ d \in {TmpRoot, TrashRoot}

\* any(current.iterdir())
HasEntries(f, d) ==
    CASE d = TmpRoot -> TmpSource \in f.dirs
      [] d = TmpSource -> \E r \in RunIds : RunDir(r) \in f.dirs
      [] d = SourceDir -> \E k \in FileKey : f.final[k] # Absent
      [] d = TrashRoot -> f.trash > 0
      [] d = StagingRoot -> f.dirs \cap {TmpRoot, TrashRoot, SourceDir} # {}
      [] OTHER -> \E r \in RunIds, k \in FileKey :
                     RunDir(r) = d /\ f.tmp[TmpPath(r, k)] # Absent

\* a walk upward that stops at missing and non-empty directories only
RECURSIVE PruneEmptyParentsUnprotected(_, _)
PruneEmptyParentsUnprotected(f, d) ==
    IF d \notin f.dirs \/ HasEntries(f, d)
    THEN f
    ELSE PruneEmptyParentsUnprotected([f EXCEPT !.dirs = @ \ {d}], Parent(d))

\* _prune_empty_parents: walk upward removing empty directories until a
\* missing, protected or non-empty directory is met
RECURSIVE PruneEmptyParents(_, _)
PruneEmptyParents(f, d) ==
    IF d \notin f.dirs \/ IsProtectedDir(d) \/ HasEntries(f, d)
    THEN f
    ELSE PruneEmptyParents([f EXCEPT !.dirs = @ \ {d}], Parent(d))

\* ensure_bundle_directory(tmp_bundle_dir): mkdir(parents=True, exist_ok=True)
EnsureTmpBundle(f, rid, k) ==
    [f EXCEPT !.dirs = @ \cup {StagingRoot, TmpRoot, TmpSource, RunDir(rid)},
              !.tmp[TmpPath(rid, k)] = IF @ = Absent THEN {} ELSE @]

\* delete_bundle_dir(tmp_bundle_dir): rmtree, then prune the parents
DeleteTmpBundle(f, rid, k) ==
    PruneEmptyParents([f EXCEPT !.tmp[TmpPath(rid, k)] = Absent], RunDir(rid))

\* a cleanup that wipes the temporary zone of every run
PruneTmpDirsOfAllRuns(f, rid) ==
    [f EXCEPT !.dirs = @ \ {TmpSource, RunDir("rA"), RunDir("rB")},
              !.tmp = [p \in RunIds \X FileKey |-> Absent]]

\* prune_tmp_run_dirs(run_id)
PruneTmpRunDirs(f, rid) ==
    IF TmpRoot \notin f.dirs \/ TmpSource \notin f.dirs \/ RunDir(rid) \notin f.dirs
    THEN f
    ELSE PruneEmptyParents(PruneEmptyParents(f, RunDir(rid)), TmpSource)

\* cleanup_trash: rmtree(trash_root), then mkdir
TrashRmtree(f) == [f EXCEPT !.dirs = @ \ {TrashRoot}, !.trash = 0]
TrashMkdir(f) == [f EXCEPT !.dirs = @ \cup {StagingRoot, TrashRoot}]
CleanupTrash(f) == IF TrashRoot \in f.dirs THEN TrashMkdir(TrashRmtree(f)) ELSE f

\* a pruning that removes the source directory with the bundles it holds
PruneSourceDirectoriesWithBundles(f) ==
    [f EXCEPT !.dirs = @ \ {SourceDir}, !.final = [k \in FileKey |-> Absent]]

\* prune_empty_source_directories
PruneEmptySourceDirectories(f) ==
    IF SourceDir \in f.dirs /\ ~HasEntries(f, SourceDir)
    THEN [f EXCEPT !.dirs = @ \ {SourceDir}] ELSE f

\* cleanup_after_commit(run_id)
CleanupAfterCommit(f, rid) ==
    PruneEmptySourceDirectories(CleanupTrash(PruneTmpRunDirs(f, rid)))

\* rmtree(tmp_root) of cleanup_tmp_and_incomplete_bundles
WipeTmp(f) ==
    [f EXCEPT !.dirs = @ \ {TmpRoot, TmpSource, RunDir("rA"), RunDir("rB")},
              !.tmp = [p \in RunIds \X FileKey |-> Absent]]

(***************************************************************************)
(* execute_extraction_task, one step of a worker process per action        *)
(***************************************************************************)
\* what the raw file of a signature holds: data rows, a header and no data
\* row, or text that FastCSVExtractor rejects (or a name without a date)
RawKind(sig) == CASE sig = "f3" -> "malformed"
                  [] sig = "f4" -> "no_rows"
                  [] OTHER -> "rows"

\* metrics.total_rows of the manifest that an extraction of this file writes
ManifestRows(k) == IF RawKind(k.raw_file_metadata_signature) = "rows" THEN 1 ELSE 0

\* max_retries of finalize_tmp_bundle
max_retries == 10

Workers == {1, 2}
TaskIds == Workers \cup (1..max_parallel_extractions)

\* final0: what the final bundle path held when the task began;
\* error: the exception that the last os.replace of the promotion raised
FreeTask == [pc |-> "free", key |-> K1, rid |-> "rA", attempt |-> 0,
             rows |-> 0, reused |-> FALSE, final0 |-> Absent, error |-> "none"]
NewTask(k, rid) == [FreeTask EXCEPT !.pc = "start", !.key = k, !.rid = rid]

\* a finished task: the ExtractionResult it returned, or the exception raised
Done(rows, reused) == [FreeTask EXCEPT !.pc = "done", !.rows = rows, !.reused = reused]
Failed == [FreeTask EXCEPT !.pc = "failed"]

Running(t) == task[t].pc \notin {"free", "done", "failed"}

IdleJan == [pc |-> "idle", rid |-> "rA", todo |-> {}, cur |-> K1, used |-> FALSE]

\* the staging tree a run leaves when it has extracted f4, a file without
\* data rows, and its commit raised
SeededFs == [EmptyFs EXCEPT !.dirs = {StagingRoot, TmpRoot, SourceDir},
                           !.final[K4] = {Manifest}]

\* the staging tree left when the removal of the final bundle of f1 stopped
\* after its manifest (rmtree with ignore_errors, or a killed process)
LeftoverFs == [EmptyFs EXCEPT !.dirs = {StagingRoot, TmpRoot, TrashRoot, SourceDir},
                             !.final[K1] = {DataFile}]

\* the staging tree left by two runs whose workers were killed between the
\* os.replace of a promotion and the pruning of the temporary parents
StaleTmpFs == [EmptyFs EXCEPT !.dirs = {StagingRoot, TmpRoot, TmpSource,
                                        RunDir("rA"), RunDir("rB")}]

\* the staging tree a run leaves when it has extracted f1 and its commit
\* raised: the complete bundle of f1 is in the final zone
ExtractedFs == [EmptyFs EXCEPT !.dirs = {StagingRoot, TmpRoot, SourceDir},
                              !.final[K1] = {DataFile, Manifest}]

FsInit(trees) ==
    /\ fs \in trees
    /\ task = [t \in TaskIds |-> FreeTask]
    /\ submitted = 0
    /\ jan = IdleJan

\* a task without the idempotency check: it always extracts
WStartAlwaysExtract(t) ==
    /\ task[t].pc = "start"
    /\ task' = [task EXCEPT ![t].pc = "mkdir", ![t].final0 = fs.final[task[t].key]]
    /\ UNCHANGED <<fs, submitted, jan>>
    /\ UNCHANGED nonFsVars

\* the idempotency check: a complete final bundle is reused, its manifest read
\* (json.load raises on a manifest that is not whole, outside the try block)
WStart(t) ==
    /\ task[t].pc = "start"
    /\ IF IsCompleteBundleDir(fs.final[task[t].key])
       THEN task' = [task EXCEPT ![t] =
                        IF ManifestPartial \in fs.final[task[t].key]
                        THEN Failed
                        ELSE Done(ManifestRows(task[t].key), TRUE)]
       ELSE task' = [task EXCEPT ![t].pc = "mkdir",
                                 ![t].final0 = fs.final[task[t].key]]
    /\ UNCHANGED <<fs, submitted, jan>>
    /\ UNCHANGED nonFsVars

\* layout.ensure_bundle_directory(tmp_bundle_dir)
WMkdir(t) ==
    /\ task[t].pc = "mkdir"
    /\ fs' = EnsureTmpBundle(fs, task[t].rid, task[t].key)
    /\ task' = [task EXCEPT ![t].pc = "extract"]
    /\ UNCHANGED <<submitted, jan>>
    /\ UNCHANGED nonFsVars

\* _parse_snapshot_date and convert_to_parquet: an exception goes to the
\* except branch; no data row returns 0 without writing the parquet file
WExtract(t) ==
    /\ task[t].pc = "extract"
    /\ LET p == TmpPath(task[t].rid, task[t].key)
           kind == RawKind(task[t].key.raw_file_metadata_signature)
       IN IF kind = "malformed" \/ (kind = "rows" /\ fs.tmp[p] = Absent)
          THEN /\ task' = [task EXCEPT ![t].pc = "except"]
               /\ fs' = fs
          ELSE IF kind = "no_rows"
          THEN /\ task' = [task EXCEPT ![t].pc = "manifest_tmp", ![t].rows = 0]
               /\ fs' = fs
          ELSE /\ task' = [task EXCEPT ![t].pc = "manifest_tmp", ![t].rows = 1]
               /\ fs' = [fs EXCEPT !.tmp[p] = @ \cup {DataFile}]
    /\ UNCHANGED <<submitted, jan>>
    /\ UNCHANGED nonFsVars

\* write_bundle_manifest, tmp_path.write_text begins: ensure the directory,
\* open bundle.json.tmp for writing, which creates it or truncates it
WManifestOpen(t) ==
    /\ task[t].pc = "manifest_tmp"
    /\ LET f == EnsureTmpBundle(fs, task[t].rid, task[t].key)
       IN fs' = [f EXCEPT !.tmp[TmpPath(task[t].rid, task[t].key)] =
                              (@ \ {ManifestTmp}) \cup {ManifestTmpPartial}]
    /\ task' = [task EXCEPT ![t].pc = "manifest_write"]
    /\ UNCHANGED <<submitted, jan>>
    /\ UNCHANGED nonFsVars

\* the file a writer has open receives the rest of the payload: it is at the
\* path it was opened at, or another process has renamed it to bundle.json
\* and perhaps promoted its directory
FinishWrite(f, rid, k) ==
    LET p == TmpPath(rid, k)
    IN IF f.tmp[p] # Absent /\ ManifestTmpPartial \in f.tmp[p]
       THEN [f EXCEPT !.tmp[p] = (@ \ {ManifestTmpPartial}) \cup {ManifestTmp}]
       ELSE IF f.tmp[p] # Absent /\ ManifestPartial \in f.tmp[p]
       THEN [f EXCEPT !.tmp[p] = (@ \ {ManifestPartial}) \cup {Manifest}]
       ELSE IF ManifestPartial \in f.final[k]
       THEN [f EXCEPT !.final[k] = (@ \ {ManifestPartial}) \cup {Manifest}]
       ELSE f

\* write_bundle_manifest, first half: ensure the directory and write
\* bundle.json.tmp, in one step or as the end of a write that was begun.  With
\* another writer on the same file, which truncated it meanwhile, the file can
\* be left short of the payload (torn) until that writer ends.
WManifestTmp(t, torn) ==
    /\ task[t].pc \in {"manifest_tmp", "manifest_write"}
    /\ torn => /\ task[t].pc = "manifest_write"
               /\ \E u \in TaskIds \ {t} :
                     /\ task[u].pc = "manifest_write"
                     /\ task[u].rid = task[t].rid /\ task[u].key = task[t].key
    /\ LET p == TmpPath(task[t].rid, task[t].key)
           f == EnsureTmpBundle(fs, task[t].rid, task[t].key)
       IN fs' = IF torn THEN fs
                ELSE IF task[t].pc = "manifest_tmp"
                THEN [f EXCEPT !.tmp[p] = (@ \ {ManifestTmpPartial}) \cup {ManifestTmp}]
                ELSE FinishWrite(fs, task[t].rid, task[t].key)
    /\ task' = [task EXCEPT ![t].pc = "manifest_rename"]
    /\ UNCHANGED <<submitted, jan>>
    /\ UNCHANGED nonFsVars

\* write_bundle_manifest, second half: os.replace(bundle.json.tmp, bundle.json)
\* moves the file at the temporary name, whatever it holds
WManifestRename(t) ==
    /\ task[t].pc = "manifest_rename"
    /\ LET p == TmpPath(task[t].rid, task[t].key)
       IN IF fs.tmp[p] # Absent /\ ManifestTmp \in fs.tmp[p]
          THEN /\ fs' = [fs EXCEPT !.tmp[p] =
                              (@ \ {ManifestTmp, ManifestPartial}) \cup {Manifest}]
               /\ task' = [task EXCEPT ![t].pc = "fin_parent"]
          ELSE IF fs.tmp[p] # Absent /\ ManifestTmpPartial \in fs.tmp[p]
          THEN /\ fs' = [fs EXCEPT !.tmp[p] =
                              (@ \ {ManifestTmpPartial, Manifest}) \cup {ManifestPartial}]
               /\ task' = [task EXCEPT ![t].pc = "fin_parent"]
          ELSE /\ fs' = fs
               /\ task' = [task EXCEPT ![t].pc = "except"]
    /\ UNCHANGED <<submitted, jan>>
    /\ UNCHANGED nonFsVars

\* finalize_tmp_bundle: ensure_bundle_directory(final_bundle_dir.parent)
WFinParent(t) ==
    /\ task[t].pc = "fin_parent"
    /\ fs' = [fs EXCEPT !.dirs = @ \cup {StagingRoot, SourceDir}]
    /\ task' = [task EXCEPT ![t].pc = "fin_check"]
    /\ UNCHANGED <<submitted, jan>>
    /\ UNCHANGED nonFsVars

\* finalize_tmp_bundle: if final_bundle_dir.exists(), ensure trash_root
WFinCheck(t) ==
    /\ task[t].pc = "fin_check"
    /\ IF fs.final[task[t].key] # Absent
       THEN /\ fs' = [fs EXCEPT !.dirs = @ \cup {StagingRoot, TrashRoot}]
            /\ task' = [task EXCEPT ![t].pc = "fin_trash"]
       ELSE /\ fs' = fs
            /\ task' = [task EXCEPT ![t].pc = "fin_promote"]
    /\ UNCHANGED <<submitted, jan>>
    /\ UNCHANGED nonFsVars

\* finalize_tmp_bundle: os.rename(final_bundle_dir, trash_path); an OSError
\* (the directory is locked, or it or the trash root has gone) leads to the
\* rmtree fallback
WFinTrash(t, locked) ==
    /\ task[t].pc = "fin_trash"
    /\ LET k == task[t].key
       IN IF ~locked /\ fs.final[k] # Absent /\ TrashRoot \in fs.dirs
          THEN /\ fs' = [fs EXCEPT !.final[k] = Absent, !.trash = @ + 1]
               /\ task' = [task EXCEPT ![t].pc = "fin_promote"]
          ELSE /\ fs' = fs
               /\ task' = [task EXCEPT ![t].pc = "fin_rmtree"]
    /\ UNCHANGED <<submitted, jan>>
    /\ UNCHANGED nonFsVars

\* shutil.rmtree(final_bundle_dir, ignore_errors=True) unlinks one entry
WFinRmtreeUnlink(t, file) ==
    /\ task[t].pc = "fin_rmtree"
    /\ fs.final[task[t].key] # Absent
    /\ file \in fs.final[task[t].key]
    /\ fs' = [fs EXCEPT !.final[task[t].key] = @ \ {file}]
    /\ UNCHANGED <<task, submitted, jan>>
    /\ UNCHANGED nonFsVars

\* shutil.rmtree(final_bundle_dir, ignore_errors=True) removes the emptied
\* directory, or finds none
WFinRmtreeRmdir(t) ==
    /\ task[t].pc = "fin_rmtree"
    /\ fs.final[task[t].key] \in {Absent, {}}
    /\ fs' = [fs EXCEPT !.final[task[t].key] = Absent]
    /\ task' = [task EXCEPT ![t].pc = "fin_promote"]
    /\ UNCHANGED <<submitted, jan>>
    /\ UNCHANGED nonFsVars

\* shutil.rmtree(final_bundle_dir, ignore_errors=True) meets an error (an
\* entry is locked) and returns, leaving what it has not removed
WFinRmtreeGivesUp(t) ==
    /\ task[t].pc = "fin_rmtree"
    /\ fs.final[task[t].key] # Absent
    /\ task' = [task EXCEPT ![t].pc = "fin_promote"]
    /\ UNCHANGED <<fs, submitted, jan>>
    /\ UNCHANGED nonFsVars

\* os.replace(tmp_bundle_dir, final_bundle_dir) can succeed
CanReplace(f, rid, k) ==
    /\ f.tmp[TmpPath(rid, k)] # Absent
    /\ SourceDir \in f.dirs
    /\ f.final[k] \in {Absent, {}}

\* os.replace(tmp_bundle_dir, final_bundle_dir), _prune_empty_parents(tmp parent)
Promote(f, rid, k) ==
    PruneEmptyParents([f EXCEPT !.final[k] = f.tmp[TmpPath(rid, k)],
                                !.tmp[TmpPath(rid, k)] = Absent], RunDir(rid))

\* a retry loop that catches every OSError (except OSError)
WFinPromoteRetriesAnyError(t, locked) ==
    /\ task[t].pc = "fin_promote"
    /\ LET k == task[t].key
           rid == task[t].rid
           err == IF locked THEN "PermissionError" ELSE "OSError"
       IN IF locked \/ ~CanReplace(fs, rid, k)
          THEN /\ fs' = fs
               /\ IF task[t].attempt = max_retries - 1
                  THEN task' = [task EXCEPT ![t].pc = "except", ![t].attempt = 0,
                                            ![t].error = err]
                  ELSE task' = [task EXCEPT ![t].attempt = @ + 1, ![t].error = err]
          ELSE /\ fs' = Promote(fs, rid, k)
               /\ task' = [task EXCEPT ![t] = Done(task[t].rows, FALSE)]
    /\ UNCHANGED <<submitted, jan>>
    /\ UNCHANGED nonFsVars

\* finalize_tmp_bundle: one attempt of the retry loop.  PermissionError is
\* retried until the last attempt, any other OSError is raised at once.
WFinPromote(t, locked) ==
    /\ task[t].pc = "fin_promote"
    /\ LET k == task[t].key
           rid == task[t].rid
       IN IF locked
          THEN /\ fs' = fs
               /\ IF task[t].attempt = max_retries - 1
                  THEN task' = [task EXCEPT ![t].pc = "except", ![t].attempt = 0,
                                            ![t].error = "PermissionError"]
                  ELSE task' = [task EXCEPT ![t].attempt = @ + 1,
                                            ![t].error = "PermissionError"]
          ELSE IF CanReplace(fs, rid, k)
          THEN /\ fs' = Promote(fs, rid, k)
               /\ task' = [task EXCEPT ![t] = Done(task[t].rows, FALSE)]
          ELSE /\ fs' = fs
               /\ task' = [task EXCEPT ![t].pc = "except", ![t].attempt = 0,
                                         ![t].error = "OSError"]
    /\ UNCHANGED <<submitted, jan>>
    /\ UNCHANGED nonFsVars

\* except Exception: delete_bundle_dir(tmp_bundle_dir), raise
WExcept(t) ==
    /\ task[t].pc = "except"
    /\ fs' = DeleteTmpBundle(fs, task[t].rid, task[t].key)
    /\ task' = [task EXCEPT ![t] = Failed]
    /\ UNCHANGED <<submitted, jan>>
    /\ UNCHANGED nonFsVars

\* the steps of one worker, but for the trash pattern
ExtractStep(t, PromoteLocks) ==
    \/ WStart(t)
    \/ WMkdir(t)
    \/ WExtract(t)
    \/ WManifestTmp(t, FALSE)
    \/ WManifestRename(t)
    \/ WFinParent(t)
    \/ WFinCheck(t)
    \/ \E locked \in PromoteLocks : WFinPromote(t, locked)
    \/ WExcept(t)

\* the trash pattern of finalize_tmp_bundle, taken when the final bundle
\* directory exists
TrashStep(t) ==
    \/ \E locked \in BOOLEAN : WFinTrash(t, locked)
    \/ \E file \in BundleFiles : WFinRmtreeUnlink(t, file)
    \/ WFinRmtreeRmdir(t)
    \/ WFinRmtreeGivesUp(t)

(***************************************************************************)
(* FastCSVExtractor._get_clean_header: duplicates, mapping, validation     *)
(***************************************************************************)
\* header tokens a raw file can carry
Tokens == {"ID", "ID.1", "Name"}

\* the header lines with at least one token (an empty line is rejected before)
RawHeaderLists == UNION {[1..n -> Tokens] : n \in 1..MaxHeaderLen}

\* CSVIngestSpec, what _get_clean_header reads of it: _header_map (raw header
\* -> DB column name) and the DB columns marked required
CsvSpecs ==
    { [header_map |-> [x \in {} |-> ""], required |-> {}],
      [header_map |-> ("ID" :> "id" @@ "Name" :> "name"), required |-> {"id"}],
      [header_map |-> ("ID" :> "id" @@ "ID.1" :> "id2"), required |-> {"id2"}],
      \* csv_header given as a list: two raw headers are aliases of one column
      [header_map |-> ("ID" :> "id" @@ "Name" :> "id"), required |-> {"id"}] }

\* a renaming that leaves every header as it is
KeepHeaders(header) == header

\* the loop of _rename_duplicate_column_headers over a Counter
RECURSIVE RenameLoop(_, _, _)
RenameLoop(header, counts, new_header) ==
    IF header = <<>> THEN new_header
    ELSE LET column == Head(header)
             count == IF column \in DOMAIN counts THEN counts[column] ELSE 0
         IN RenameLoop(Tail(header),
                       [c \in DOMAIN counts \cup {column} |->
                           IF c = column THEN count + 1 ELSE counts[c]],
                       Append(new_header,
                              IF count > 0 THEN column \o "." \o ToString(count)
                                           ELSE column))

\* _rename_duplicate_column_headers
RenameDuplicateColumnHeaders(header) ==
    RenameLoop(header, [c \in {} |-> 0], <<>>)

\* step 3 of _get_clean_header: mapped name, or the header passed through
FinalHeaders(unique_phys_headers, header_map) ==
    [i \in 1..Len(unique_phys_headers) |->
        IF unique_phys_headers[i] \in DOMAIN header_map
        THEN header_map[unique_phys_headers[i]] ELSE unique_phys_headers[i]]

FoundDbCols(unique_phys_headers, header_map) ==
    {header_map[unique_phys_headers[i]] :
        i \in {j \in 1..Len(unique_phys_headers) :
                  unique_phys_headers[j] \in DOMAIN header_map}}

\* file: the physical lines after the header; line_no: lines read so far;
\* yielded: the cleaned lines the generator has produced; yielded_from: the
\* buffer each of them was cut from
IdleExtractor == [spec |-> [header_map |-> [x \in {} |-> ""], required |-> {}],
                  pc |-> "idle", unique_phys_headers |-> <<>>,
                  final_headers |-> <<>>,
                  file |-> <<>>, line_no |-> 0, expected_number_of_columns |-> 1,
                  buffer |-> <<>>, yielded |-> <<>>, yielded_from |-> <<>>]

ExtractorInit(headers, specs, pc) ==
    /\ raw_headers \in headers
    /\ \E sp \in specs : extractor = [IdleExtractor EXCEPT !.spec = sp, !.pc = pc]

\* no header is being read
NoHeader == ExtractorInit({<<>>}, {IdleExtractor.spec}, "idle")

\* step 2: unique_phys_headers = self._rename_duplicate_column_headers(raw_headers)
GetCleanHeaderRename ==
    /\ extractor.pc = "header"
    /\ extractor' = [extractor EXCEPT
                        !.pc = "map",
                        !.unique_phys_headers = RenameDuplicateColumnHeaders(raw_headers)]
    /\ UNCHANGED raw_headers
    /\ UNCHANGED nonExtractVars

\* steps 3 and 4: map to DB names, raise when a required column is missing
GetCleanHeaderMap ==
    /\ extractor.pc = "map"
    /\ LET found == FoundDbCols(extractor.unique_phys_headers, extractor.spec.header_map)
           missing_required == extractor.spec.required \ found
       IN extractor' = [extractor EXCEPT
               !.pc = IF missing_required # {} THEN "raised" ELSE "returned",
               !.final_headers = IF missing_required # {}
                                 THEN <<>>
                                 ELSE FinalHeaders(extractor.unique_phys_headers,
                                                   extractor.spec.header_map)]
    /\ UNCHANGED raw_headers
    /\ UNCHANGED nonExtractVars

HeaderNext ==
    \/ GetCleanHeaderRename
    \/ GetCleanHeaderMap

(***************************************************************************)
(* FastCSVExtractor._stream_cleaned_lines: record reassembly               *)
(* A line is a sequence of bytes; Q is the quote character, D the          *)
(* delimiter, "a" any other byte.                                          *)
(***************************************************************************)
Q == "\""
D == ","
INTERNAL_DELIMITER_BYTE == "<1f>"
LF == "<0a>"

\* complex_delimiter_b = quote_char_b + delimiter_b + quote_char_b
complex_delimiter_b == <<Q, D, Q>>

\* physical lines without their line terminator: an empty line, "a", "a","a",
\* "a","a","a", the two halves "a and a","a" of a record broken inside its
\* first field, and ,"a", which completes a delimiter begun at the end of the
\* line before
PhysicalLines ==
    { <<>>,
      <<Q, "a", Q>>,
      <<Q, "a", Q, D, Q, "a", Q>>,
      <<Q, "a", Q, D, Q, "a", Q, D, Q, "a", Q>>,
      <<Q, "a">>,
      <<"a", Q, D, Q, "a", Q>>,
      <<D, Q, "a", Q>> }

RawFiles == UNION {[1..n -> PhysicalLines] : n \in 0..MaxLines}

\* bytes.split(sep): the parts between the non-overlapping occurrences of sep,
\* found from the left
RECURSIVE SplitFrom(_, _, _, _, _)
SplitFrom(buf, sep, i, cur, parts) ==
    IF i > Len(buf) THEN Append(parts, cur)
    ELSE IF i + Len(sep) - 1 <= Len(buf) /\ SubSeq(buf, i, i + Len(sep) - 1) = sep
         THEN SplitFrom(buf, sep, i + Len(sep), <<>>, Append(parts, cur))
         ELSE SplitFrom(buf, sep, i + 1, Append(cur, buf[i]), parts)

Split(buf, sep) == SplitFrom(buf, sep, 1, <<>>, <<>>)

\* INTERNAL_DELIMITER_BYTE.join(parts)
RECURSIVE Join(_)
Join(parts) ==
    IF Len(parts) = 1 THEN parts[1]
    ELSE parts[1] \o <<INTERNAL_DELIMITER_BYTE>> \o Join(Tail(parts))

\* normalize(parts): strip the opening quote of the first part and the
\* closing quote of the last, join with the internal delimiter, add a newline
Normalize(parts) ==
    LET p1 == IF parts[1] # <<>> /\ Head(parts[1]) = Q
              THEN [parts EXCEPT ![1] = Tail(@)] ELSE parts
        n == Len(p1)
        p2 == IF p1[n] # <<>> /\ p1[n][Len(p1[n])] = Q
              THEN [p1 EXCEPT ![n] = SubSeq(@, 1, Len(@) - 1)] ELSE p1
    IN Join(p2) \o <<LF>>

\* the columns pyarrow reads from a cleaned line (delimiter 0x1f)
NumColumns(cleaned) ==
    Cardinality({i \in 1..Len(cleaned) : cleaned[i] = INTERNAL_DELIMITER_BYTE}) + 1

\* the concatenation of a sequence of byte strings
RECURSIVE Concat(_)
Concat(seqs) == IF seqs = <<>> THEN <<>> ELSE Head(seqs) \o Concat(Tail(seqs))

\* a decision that emits a record as soon as it has enough parts
OnPartsAtLeast(number_of_parts, expected) ==
    IF number_of_parts < expected THEN "continue" ELSE "yield"

\* the three branches on len(parts) after a physical line was appended
OnParts(number_of_parts, expected) ==
    IF number_of_parts < expected THEN "continue"
    ELSE IF number_of_parts = expected THEN "yield"
    ELSE "raise"

\* an end of file that discards a trailing buffer it cannot emit
OnTrailingDiscard(number_of_parts, expected) ==
    IF number_of_parts = expected THEN "yield" ELSE "done"

\* the branches on len(parts) of the trailing buffer at end of file
OnTrailing(number_of_parts, expected) ==
    IF number_of_parts = expected THEN "yield"
    ELSE IF number_of_parts # 0 THEN "raise"
    ELSE "done"

\* the generator is created for a file and a column count
StreamInit(files, counts) ==
    /\ raw_headers = <<>>
    /\ \E file \in files, n \in counts :
          extractor = [IdleExtractor EXCEPT !.pc = "stream", !.file = file,
                                            !.expected_number_of_columns = n]

\* one iteration of "for physical in f"
StreamPhysicalLine ==
    /\ extractor.pc = "stream"
    /\ extractor.line_no < Len(extractor.file)
    /\ LET line == extractor.file[extractor.line_no + 1]
           buffer == extractor.buffer \o line
           parts == Split(buffer, complex_delimiter_b)
           next == [extractor EXCEPT !.line_no = @ + 1]
       IN IF buffer = <<>>
          THEN extractor' = [next EXCEPT !.buffer = <<>>]
          ELSE CASE OnParts(Len(parts), extractor.expected_number_of_columns) = "continue"
                      -> extractor' = [next EXCEPT !.buffer = buffer]
                 [] OnParts(Len(parts), extractor.expected_number_of_columns) = "yield"
                      -> extractor' = [next EXCEPT
                             !.buffer = <<>>,
                             !.yielded = Append(@, Normalize(parts)),
                             !.yielded_from = Append(@, buffer)]
                 [] OTHER
                      -> extractor' = [next EXCEPT !.pc = "raised", !.buffer = buffer]
    /\ UNCHANGED raw_headers
    /\ UNCHANGED nonExtractVars

\* the end of the file: the trailing buffer
StreamEndOfFile ==
    /\ extractor.pc = "stream"
    /\ extractor.line_no = Len(extractor.file)
    /\ LET candidate == extractor.buffer
           parts == Split(candidate, complex_delimiter_b)
       IN IF candidate = <<>>
          THEN extractor' = [extractor EXCEPT !.pc = "exhausted"]
          ELSE CASE OnTrailing(Len(parts), extractor.expected_number_of_columns) = "yield"
                      -> extractor' = [extractor EXCEPT
                             !.pc = "exhausted",
                             !.buffer = <<>>,
                             !.yielded = Append(@, Normalize(parts)),
                             !.yielded_from = Append(@, candidate)]
                 [] OnTrailing(Len(parts), extractor.expected_number_of_columns) = "raise"
                      -> extractor' = [extractor EXCEPT !.pc = "raised"]
                 [] OTHER
                      -> extractor' = [extractor EXCEPT !.pc = "exhausted"]
    /\ UNCHANGED raw_headers
    /\ UNCHANGED nonExtractVars

StreamNext ==
    \/ StreamPhysicalLine
    \/ StreamEndOfFile

(***************************************************************************)
(* Ledger store: schemas, parquet introspection, target tables             *)
(***************************************************************************)
T1 == "lake.bronze.s"
T2 == "lake.audit.s"
BadFqn == "bronze.s"
TargetTables == {T1, T2}

\* target_table_fqn.split(".") : the number of parts
FqnParts(t) == IF t = BadFqn THEN 2 ELSE 3

\* sorted(targets): the order of the table names
TableOrder == <<T2, T1>>
SortedTables(S) == SelectSeq(TableOrder, LAMBDA t : t \in S)

\* Parquet artifacts handed to the store, each with its column list
\* (column name, column type) in file order.
ParquetFiles == {"p1", "p2", "p3"}
ParquetSchema(p) ==
    CASE p = "p1" -> << <<"id", "VARCHAR">> >>
      [] p = "p2" -> << <<"id", "VARCHAR">>, <<"extra", "VARCHAR">> >>
      [] OTHER    -> << <<"extra", "VARCHAR">>, <<"id", "BIGINT">> >>

SchemaCols(sch) == {sch[i][1] : i \in 1..Len(sch)}
TypeOf(sch, c) == sch[CHOOSE i \in 1..Len(sch) : sch[i][1] = c][2]

\* DuckDB unifies the types of a column present in several files
UnifyType(a, b) == IF a = b THEN a ELSE "VARCHAR"

RECURSIVE MergeSchema(_, _)
MergeSchema(acc, sch) ==
    IF sch = <<>> THEN acc
    ELSE LET c == Head(sch)[1]
             ty == Head(sch)[2]
         IN IF c \in SchemaCols(acc)
            THEN MergeSchema([i \in 1..Len(acc) |->
                                IF acc[i][1] = c
                                THEN <<c, UnifyType(acc[i][2], ty)>> ELSE acc[i]],
                             Tail(sch))
            ELSE MergeSchema(Append(acc, <<c, ty>>), Tail(sch))

\* DESCRIBE SELECT * FROM read_parquet(files, union_by_name=true) LIMIT 0
RECURSIVE DescribeParquet(_)
DescribeParquet(files) ==
    IF files = <<>> THEN <<>>
    ELSE MergeSchema(ParquetSchema(Head(files)), DescribeParquet(Tail(files)))

NoTable == [exists |-> FALSE, schema |-> <<>>, rows |-> <<>>, partitioned |-> {}]

\* an evolution that adds the missing columns and compares no types
RECURSIVE EvolveSchemaNoTypeCheck(_, _)
EvolveSchemaNoTypeCheck(tsch, incoming) ==
    IF incoming = <<>> THEN [schema |-> tsch, raised |-> FALSE]
    ELSE IF Head(incoming)[1] \notin SchemaCols(tsch)
         THEN EvolveSchemaNoTypeCheck(Append(tsch, Head(incoming)), Tail(incoming))
         ELSE EvolveSchemaNoTypeCheck(tsch, Tail(incoming))

\* the "add missing columns" loop of _ensure_target_table_from_parquet:
\* columns are added one by one until a shared column's type differs
RECURSIVE EvolveSchema(_, _)
EvolveSchema(tsch, incoming) ==
    IF incoming = <<>> THEN [schema |-> tsch, raised |-> FALSE]
    ELSE LET c == Head(incoming)[1]
             ty == Head(incoming)[2]
         IN IF c \notin SchemaCols(tsch)
            THEN EvolveSchema(Append(tsch, <<c, ty>>), Tail(incoming))
            ELSE IF TypeOf(tsch, c) # ty
                 THEN [schema |-> tsch, raised |-> TRUE]
                 ELSE EvolveSchema(tsch, Tail(incoming))

\* _ensure_target_table_from_parquet: the tables afterwards, and whether it raised
\* (the table is created, or its columns added, before a later check raises)
EnsureTargetTable(tables, t, files, partition_keys) ==
    IF FqnParts(t) # 3
    THEN [tables |-> tables, raised |-> TRUE]
    ELSE IF ~tables[t].exists
    THEN LET incoming == DescribeParquet(files)
             created == [tables EXCEPT ![t] =
                            [exists |-> TRUE, schema |-> incoming, rows |-> <<>>,
                             partitioned |-> {}]]
         IN IF partition_keys = {}
            THEN [tables |-> created, raised |-> FALSE]
            ELSE IF ~(partition_keys \subseteq SchemaCols(incoming))
                 THEN [tables |-> created, raised |-> TRUE]
                 ELSE [tables |-> [created EXCEPT ![t].partitioned = partition_keys],
                       raised |-> FALSE]
    ELSE LET ev == EvolveSchema(tables[t].schema, DescribeParquet(files))
         IN [tables |-> [tables EXCEPT ![t].schema = ev.schema], raised |-> ev.raised]

\* INSERT INTO t BY NAME SELECT * FROM read_parquet(files, union_by_name=true):
\* one row per file, carrying the columns that file has (the others are NULL)
RECURSIVE ParquetRows(_)
ParquetRows(files) ==
    IF files = <<>> THEN <<>>
    ELSE <<[src |-> Head(files), cols |-> SchemaCols(ParquetSchema(Head(files)))]>>
         \o ParquetRows(Tail(files))

\* an insert that replaces the rows of the table
InsertOverwrite(tables, t, files) ==
    [tables EXCEPT ![t].rows = ParquetRows(files)]

InsertByName(tables, t, files) ==
    [tables EXCEPT ![t].rows = @ \o ParquetRows(files)]

(***************************************************************************)
(* Ledger store: commit_batch                                              *)
(***************************************************************************)
\* keyword-only parameters of commit_batch that have no default
commit_batch_kwonly == {"run_id", "file_targets", "table_partition_configs"}

\* a call binds only if every required keyword is supplied (else TypeError)
CommitBatchBinds(kwargs) == commit_batch_kwonly \subseteq kwargs

\* step 2 reads r.data_snapshot_date of every result (else AttributeError)
HasSnapshotDate(batch) ==
    \A i \in 1..Len(batch) : "data_snapshot_date" \in batch[i].fields

\* step 2: one loaded_files row per batch result
CheckpointRows(batch, run_id, now) ==
    [i \in 1..Len(batch) |->
        [file_key |-> batch[i].file_key,
         raw_file_path |-> batch[i].file_key.raw_file_metadata_signature,
         rows_loaded |-> batch[i].rows,
         run_id |-> run_id,
         loaded_at_utc |-> now]]

\* step 3: for each batch result, one row per target of its FileKey, sorted
TargetRows(key, targets, run_id, now) ==
    LET ts == SortedTables(targets)
    IN [j \in 1..Len(ts) |->
          [file_key |-> key, target_table_fqn |-> ts[j],
           run_id |-> run_id, loaded_at_utc |-> now]]

RECURSIVE LineageOver(_, _, _, _)
LineageOver(keys, file_targets, run_id, now) ==
    IF keys = <<>> THEN <<>>
    ELSE TargetRows(Head(keys), file_targets[Head(keys)], run_id, now)
         \o LineageOver(Tail(keys), file_targets, run_id, now)

\* lineage written for every key of file_targets, in the batch or not
LineageRowsOfAllTargets(batch, file_targets, run_id, now) ==
    LineageOver(<<K1, K2>>, file_targets, run_id, now)

LineageRows(batch, file_targets, run_id, now) ==
    LineageOver([i \in 1..Len(batch) |-> batch[i].file_key], file_targets, run_id, now)

Db == [loaded_files |-> loaded_files,
       loaded_file_targets |-> loaded_file_targets,
       target_tables |-> target_tables]

EmptyDb == [loaded_files |-> <<>>, loaded_file_targets |-> <<>>,
            target_tables |-> [t \in TargetTables |-> NoTable]]

IdleCall == [batch_results |-> <<>>, todo |-> <<>>, run_id |-> NoValue,
             file_targets |-> <<>>, table_partition_configs |-> <<>>, now |-> 0]

\* a transaction() whose except branch does not undo the writes
RollbackKeepsWrites(snap, cur) == cur

\* the except branch of transaction(): ROLLBACK restores the state at BEGIN
Rollback(snap, cur) == snap

StoreInit ==
    /\ loaded_files = <<>>
    /\ loaded_file_targets = <<>>
    /\ target_tables = [t \in TargetTables |-> NoTable]
    /\ txPc = "idle"
    /\ txSnap = EmptyDb
    /\ call = IdleCall
    /\ before = EmptyDb
    /\ outcome = NoValue
    /\ failed_at = NoValue
    /\ clock = 0

\* commit_batch is entered: argument binding, the empty-batch return, BEGIN
CommitBatchEnter(batch, plans, rid, ft, tpc, kwargs) ==
    /\ txPc = "idle"
    /\ clock' = clock + 1
    /\ before' = Db
    /\ UNCHANGED <<loaded_files, loaded_file_targets, target_tables>>
    /\ IF ~CommitBatchBinds(kwargs)
       THEN /\ outcome' = "raised"
            /\ failed_at' = "bind"
            /\ UNCHANGED <<txPc, txSnap, call>>
       ELSE IF batch = <<>>
       THEN /\ outcome' = "returned"
            /\ failed_at' = NoValue
            /\ UNCHANGED <<txPc, txSnap, call>>
       ELSE /\ outcome' = "running"
            /\ failed_at' = NoValue
            /\ txSnap' = Db
            /\ txPc' = "tables"
            /\ call' = [batch_results |-> batch, todo |-> plans, run_id |-> rid,
                        file_targets |-> ft, table_partition_configs |-> tpc,
                        now |-> clock + 1]

\* a client calls commit_batch
CommitBatchCall(batch, plans, rid, ft, tpc, kwargs) ==
    /\ clock < MaxCalls
    /\ CommitBatchEnter(batch, plans, rid, ft, tpc, kwargs)
    /\ UNCHANGED nonStoreVars

\* a commit_batch that writes the checkpoints before it loads the tables
TxNextTableLedgerFirst ==
    /\ txPc = "tables"
    /\ txPc' = "checkpoint"
    /\ UNCHANGED <<loaded_files, loaded_file_targets, target_tables, txSnap,
                   call, before, outcome, failed_at, clock>>
    /\ UNCHANGED nonStoreVars

\* for table_fqn, files in load_plans.items(): if not files: continue
TxNextTable ==
    /\ txPc = "tables"
    /\ IF call.todo = <<>>
       THEN txPc' = "checkpoint" /\ call' = call
       ELSE IF Head(call.todo)[2] = <<>>
            THEN txPc' = "tables" /\ call' = [call EXCEPT !.todo = Tail(@)]
            ELSE txPc' = "ensure" /\ call' = call
    /\ UNCHANGED <<loaded_files, loaded_file_targets, target_tables, txSnap,
                   before, outcome, failed_at, clock>>
    /\ UNCHANGED nonStoreVars

TxEnsure ==
    /\ txPc = "ensure"
    /\ LET t == Head(call.todo)[1]
           keys == IF t \in DOMAIN call.table_partition_configs
                   THEN call.table_partition_configs[t] ELSE {}
           r == EnsureTargetTable(target_tables, t, Head(call.todo)[2], keys)
       IN /\ target_tables' = r.tables
          /\ txPc' = IF r.raised THEN "except" ELSE "insert"
          /\ failed_at' = IF r.raised THEN "ensure" ELSE failed_at
    /\ UNCHANGED <<loaded_files, loaded_file_targets, txSnap, call, before,
                   outcome, clock>>
    /\ UNCHANGED nonStoreVars

TxInsert ==
    /\ txPc = "insert"
    /\ target_tables' = InsertByName(target_tables, Head(call.todo)[1], Head(call.todo)[2])
    /\ call' = [call EXCEPT !.todo = Tail(@)]
    /\ txPc' = "tables"
    /\ UNCHANGED <<loaded_files, loaded_file_targets, txSnap, before, outcome,
                   failed_at, clock>>
    /\ UNCHANGED nonStoreVars

TxCheckpoint ==
    /\ txPc = "checkpoint"
    /\ IF HasSnapshotDate(call.batch_results)
       THEN /\ loaded_files' = loaded_files \o
                    CheckpointRows(call.batch_results, call.run_id, call.now)
            /\ txPc' = "lineage"
            /\ failed_at' = failed_at
       ELSE /\ loaded_files' = loaded_files
            /\ txPc' = "except"
            /\ failed_at' = "checkpoint"
    /\ UNCHANGED <<loaded_file_targets, target_tables, txSnap, call, before,
                   outcome, clock>>
    /\ UNCHANGED nonStoreVars

TxLineage ==
    /\ txPc = "lineage"
    /\ loaded_file_targets' = loaded_file_targets \o
            LineageRows(call.batch_results, call.file_targets, call.run_id, call.now)
    /\ txPc' = "commit"
    /\ UNCHANGED <<loaded_files, target_tables, txSnap, call, before, outcome,
                   failed_at, clock>>
    /\ UNCHANGED nonStoreVars

\* the else branch of transaction(): COMMIT
TxCommit ==
    /\ txPc = "commit"
    /\ txPc' = "idle"
    /\ outcome' = "committed"
    /\ call' = IdleCall
    /\ UNCHANGED <<loaded_files, loaded_file_targets, target_tables, txSnap,
                   before, failed_at, clock>>
    /\ UNCHANGED nonStoreVars

\* a statement of the transaction fails in the engine (I/O, catalog, constraint)
TxStoreError ==
    /\ txPc \in {"ensure", "insert", "checkpoint", "lineage", "commit"}
    /\ failed_at' = txPc
    /\ txPc' = "except"
    /\ UNCHANGED <<loaded_files, loaded_file_targets, target_tables, txSnap,
                   call, before, outcome, clock>>
    /\ UNCHANGED nonStoreVars

\* the except branch of transaction(): ROLLBACK, then the error is raised again
TxRollback ==
    /\ txPc = "except"
    /\ LET r == Rollback(txSnap, Db)
       IN /\ loaded_files' = r.loaded_files
          /\ loaded_file_targets' = r.loaded_file_targets
          /\ target_tables' = r.target_tables
    /\ txPc' = "idle"
    /\ outcome' = "raised"
    /\ call' = IdleCall
    /\ UNCHANGED <<txSnap, before, failed_at, clock>>
    /\ UNCHANGED nonStoreVars

(***************************************************************************)
(* SpecStore: commit_batch called by any client, with arguments drawn from *)
(* small sets.  A result is an ExtractionResult, or an object that also    *)
(* has a data_snapshot_date attribute.                                     *)
(***************************************************************************)
Result(k, fields) == [file_key |-> k, fields |-> fields, rows |-> 1]
Dated == ExtractionResult_fields \cup {"data_snapshot_date"}

FT1 == [k \in {K1, K2} |-> IF k = K1 THEN {T1} ELSE {}]
FT2 == [k \in {K1, K2} |-> IF k = K1 THEN {T1, T2} ELSE {T1}]

\* (batch_results, file_targets, run_id)
LedgerInputs ==
    { <<batch, ft[1], ft[2]>> :
        batch \in {<<>>} \cup { <<Result(K1, f)>> : f \in {ExtractionResult_fields, Dated} }
                  \cup { <<Result(K2, Dated)>>, <<Result(K1, Dated), Result(K2, Dated)>> },
        ft \in { <<FT1, "rA">>, <<FT2, "rB">> } }

\* (load_plans, table_partition_configs)
TableInputs ==
    { << << <<T1, <<"p1">>>> >>, <<>> >>,
      << << <<T1, <<"p2">>>> >>, <<>> >>,
      << << <<T1, <<"p3">>>> >>, <<>> >>,
      << << <<T1, <<"p1">>>>, <<T2, <<"p3">>>> >>, <<>> >>,
      << << <<T2, <<"p1">>>> >>, <<>> >>,
      << << <<T2, <<>>>>, <<T1, <<"p1", "p2">>>> >>, <<>> >>,
      << << <<T1, <<"p1">>>> >>, [t \in {T1} |-> {"extra"}] >>,
      << << <<T1, <<"p2">>>> >>, [t \in {T1} |-> {"extra"}] >>,
      << << <<BadFqn, <<"p1">>>> >>, <<>> >> }

KwargInputs == {commit_batch_kwonly, {"run_id", "file_targets"}}

StoreNext ==
    \/ \E li \in LedgerInputs, ti \in TableInputs, kw \in KwargInputs :
          CommitBatchCall(li[1], ti[1], li[3], li[2], ti[2], kw)
    \/ TxNextTable
    \/ TxEnsure
    \/ TxInsert
    \/ TxCheckpoint
    \/ TxLineage
    \/ TxCommit
    \/ TxStoreError
    \/ TxRollback


(***************************************************************************)
(* SpecFS: extraction tasks of any run on the file f1, concurrently with    *)
(* one another and with a process that runs the layout's cleanup helpers,  *)
(* in a staging tree that is empty or holds the bundle of f4; any          *)
(* of these processes can be killed between two steps.  The cleaning       *)
(* process makes one call in a behaviour: cleanup_after_commit at any      *)
(* moment, or the startup recovery cleanup_tmp_and_incomplete_bundles      *)
(* while no extraction runs.  os.replace of the promotion meets no         *)
(* PermissionError here.                                                   *)
(***************************************************************************)
FsKeys == {K1}

InRecovery == jan.pc \in {"wipe_tmp", "scan", "loop", "rmtree"}

\* executor.submit(execute_extraction_task, ...)
Submit(t, k, rid) ==
    /\ ~Running(t)
    /\ ~InRecovery
    /\ submitted < MaxTasks
    /\ submitted' = submitted + 1
    /\ task' = [task EXCEPT ![t] = NewTask(k, rid)]
    /\ UNCHANGED <<fs, jan>>
    /\ UNCHANGED nonFsVars

\* the worker process is killed
TaskCrash(t) ==
    /\ Running(t)
    /\ task' = [task EXCEPT ![t] = FreeTask]
    /\ UNCHANGED <<fs, submitted, jan>>
    /\ UNCHANGED nonFsVars

\* cleanup_after_commit(run_id) is entered
JanCleanupAfterCommit(rid) ==
    /\ jan.pc = "idle"
    /\ ~jan.used
    /\ jan' = [jan EXCEPT !.pc = "prune_tmp", !.rid = rid, !.used = TRUE]
    /\ UNCHANGED <<fs, task, submitted>>
    /\ UNCHANGED nonFsVars

JanPruneTmp ==
    /\ jan.pc = "prune_tmp"
    /\ fs' = PruneTmpRunDirs(fs, jan.rid)
    /\ jan' = [jan EXCEPT !.pc = "trash", !.rid = "rA"]
    /\ UNCHANGED <<task, submitted>>
    /\ UNCHANGED nonFsVars

\* cleanup_trash: if trash_root.exists(): shutil.rmtree(trash_root)
JanTrashRmtree ==
    /\ jan.pc = "trash"
    /\ IF TrashRoot \in fs.dirs
       THEN fs' = TrashRmtree(fs) /\ jan' = [jan EXCEPT !.pc = "trash_mkdir"]
       ELSE fs' = fs /\ jan' = [jan EXCEPT !.pc = "prune_sources"]
    /\ UNCHANGED <<task, submitted>>
    /\ UNCHANGED nonFsVars

\* cleanup_trash: trash_root.mkdir(parents=True, exist_ok=True)
JanTrashMkdir ==
    /\ jan.pc = "trash_mkdir"
    /\ fs' = TrashMkdir(fs)
    /\ jan' = [jan EXCEPT !.pc = "prune_sources"]
    /\ UNCHANGED <<task, submitted>>
    /\ UNCHANGED nonFsVars

JanPruneSources ==
    /\ jan.pc = "prune_sources"
    /\ fs' = PruneEmptySourceDirectories(fs)
    /\ jan' = [jan EXCEPT !.pc = "idle"]
    /\ UNCHANGED <<task, submitted>>
    /\ UNCHANGED nonFsVars

\* cleanup_tmp_and_incomplete_bundles() is entered
JanCleanupTmpAndIncomplete ==
    /\ jan.pc = "idle"
    /\ ~jan.used
    /\ \A t \in TaskIds : ~Running(t)
    /\ jan' = [jan EXCEPT !.pc = "wipe_tmp", !.used = TRUE]
    /\ UNCHANGED <<fs, task, submitted>>
    /\ UNCHANGED nonFsVars

JanWipeTmp ==
    /\ jan.pc = "wipe_tmp"
    /\ fs' = WipeTmp(fs)
    /\ jan' = [jan EXCEPT !.pc = "scan"]
    /\ UNCHANGED <<task, submitted>>
    /\ UNCHANGED nonFsVars

\* list(self.iter_final_bundles())
JanScan ==
    /\ jan.pc = "scan"
    /\ jan' = [jan EXCEPT !.pc = "loop",
                          !.todo = {k \in FileKey : fs.final[k] # Absent}]
    /\ UNCHANGED <<fs, task, submitted>>
    /\ UNCHANGED nonFsVars

\* for final_bundle in ...: if not is_complete_bundle_dir(final_bundle)
JanLoop ==
    /\ jan.pc = "loop"
    /\ IF jan.todo = {}
       THEN jan' = [jan EXCEPT !.pc = "idle"]
       ELSE \E k \in jan.todo :
               IF IsCompleteBundleDir(fs.final[k])
               THEN jan' = [jan EXCEPT !.todo = @ \ {k}]
               ELSE jan' = [jan EXCEPT !.todo = @ \ {k}, !.cur = k, !.pc = "rmtree"]
    /\ UNCHANGED <<fs, task, submitted>>
    /\ UNCHANGED nonFsVars

\* delete_bundle_dir(final_bundle): shutil.rmtree unlinks one entry
JanRmtreeUnlink(file) ==
    /\ jan.pc = "rmtree"
    /\ fs.final[jan.cur] # Absent
    /\ file \in fs.final[jan.cur]
    /\ fs' = [fs EXCEPT !.final[jan.cur] = @ \ {file}]
    /\ UNCHANGED <<task, submitted, jan>>
    /\ UNCHANGED nonFsVars

\* delete_bundle_dir(final_bundle): the directory is removed (or was missing),
\* then _prune_empty_parents(bundle_dir.parent)
JanRmtreeRmdir ==
    /\ jan.pc = "rmtree"
    /\ fs.final[jan.cur] \in {Absent, {}}
    /\ fs' = PruneEmptyParents([fs EXCEPT !.final[jan.cur] = Absent], SourceDir)
    /\ jan' = [jan EXCEPT !.pc = "loop", !.cur = K1]
    /\ UNCHANGED <<task, submitted>>
    /\ UNCHANGED nonFsVars

\* the cleaning process is killed
JanCrash ==
    /\ jan.pc # "idle"
    /\ jan' = [IdleJan EXCEPT !.used = TRUE]
    /\ UNCHANGED <<fs, task, submitted>>
    /\ UNCHANGED nonFsVars

FsNext ==
    \/ \E t \in Workers, k \in FsKeys, rid \in RunIds : Submit(t, k, rid)
    \/ \E t \in Workers : ExtractStep(t, {FALSE})
    \/ \E t \in Workers : TrashStep(t)
    \/ \E t \in Workers : TaskCrash(t)
    \/ \E rid \in RunIds : JanCleanupAfterCommit(rid)
    \/ JanPruneTmp
    \/ JanTrashRmtree
    \/ JanTrashMkdir
    \/ JanPruneSources
    \/ JanCleanupTmpAndIncomplete
    \/ JanWipeTmp
    \/ JanScan
    \/ JanLoop
    \/ \E file \in BundleFiles : JanRmtreeUnlink(file)
    \/ JanRmtreeRmdir
    \/ JanCrash

(***************************************************************************)
(* Orchestrator.run: discover, dispatch, collect, commit                   *)
(***************************************************************************)
\* the directories that data_dir can be: two files with data rows, or one of
\* them and a file the extractor rejects
RawDirs == {{"f1", "f2"}, {"f1", "f3"}}

SigOrder == <<"f1", "f2", "f3", "f4">>

\* _discover_files: one DiscoveredFile per file of data_dir, keyed by its
\* signature and the hash of the specification
DiscoverFiles(files, h) ==
    LET sigs == SelectSeq(SigOrder, LAMBDA x : x \in files)
    IN [i \in 1..Len(sigs) |-> MkKey(sigs[i], h)]

\* get_completed_file_keys
CompletedFileKeys == {loaded_files[i].file_key : i \in 1..Len(loaded_files)}

\* pending = [f for f in all_files if f.file_key not in completed_keys]
PendingOf(all_files, completed_keys) ==
    SelectSeq(all_files, LAMBDA k : k \notin completed_keys)

Range(q) == {q[i] : i \in 1..Len(q)}

\* stale: batch_loading_max_latency_seconds have passed since last_commit_time;
\* aged: they have passed since the first result of the buffer was appended
IdleRun == [pc |-> "idle", run_id |-> "rA", pending |-> <<>>, in_flight |-> {},
            buffer |-> <<>>, stale |-> FALSE, aged |-> FALSE, raising |-> FALSE,
            pending0 |-> {}, failed |-> {}, dispatched |-> <<>>]

OrchInit(dirs) ==
    /\ raw \in dirs
    /\ spec_hash = "h1"
    /\ run = IdleRun
    /\ hist = [runs |-> 0, ended |-> "none", hash |-> "h1", pending0 |-> {},
               failed |-> {}, attempted |-> {}]

\* RunContext(run_id="run_001") of main()
MainRunId == "rA"

\* the keywords that _commit_batch passes to store.commit_batch
OrchestratorKwargs == {"run_id", "file_targets"}

\* run() is entered: completed keys, discovery, pending
OStartRun(rid) ==
    /\ run.pc = "idle"
    /\ hist.runs < MaxRuns
    /\ LET pending == PendingOf(DiscoverFiles(raw, spec_hash), CompletedFileKeys)
       IN run' = [IdleRun EXCEPT !.pc = IF pending = <<>> THEN "finally" ELSE "dispatch",
                                 !.run_id = rid,
                                 !.pending = pending,
                                 !.pending0 = Range(pending)]
    /\ hist' = [hist EXCEPT !.runs = @ + 1]
    /\ UNCHANGED <<storeVars, fsVars, raw, spec_hash>>
    /\ UNCHANGED extractVars

\* a dispatch loop that submits every pending file, whatever is in flight
RECURSIVE DispatchAllNoLimit(_, _, _, _, _)
DispatchAllNoLimit(pending, in_flight, tasks, rid, dispatched) ==
    IF pending # <<>>
    THEN LET free == (1..max_parallel_extractions) \ {p[1] : p \in in_flight}
             t == IF free = {} THEN 1
                  ELSE CHOOSE x \in free : \A y \in free : x <= y
         IN DispatchAllNoLimit(Tail(pending), in_flight \cup {<<t, Head(pending)>>},
                               [tasks EXCEPT ![t] = NewTask(Head(pending), rid)], rid,
                               Append(dispatched, Head(pending)))
    ELSE [pending |-> pending, in_flight |-> in_flight, tasks |-> tasks,
          dispatched |-> dispatched]

\* a dispatch loop that takes the file at the end of the pending list
\* (pending.pop())
RECURSIVE DispatchAllFromEnd(_, _, _, _, _)
DispatchAllFromEnd(pending, in_flight, tasks, rid, dispatched) ==
    IF Cardinality(in_flight) < max_parallel_extractions /\ pending # <<>>
    THEN LET busy == {p[1] : p \in in_flight}
             t == CHOOSE x \in (1..max_parallel_extractions) \ busy :
                     \A y \in (1..max_parallel_extractions) \ busy : x <= y
             last == pending[Len(pending)]
         IN DispatchAllFromEnd(SubSeq(pending, 1, Len(pending) - 1),
                               in_flight \cup {<<t, last>>},
                               [tasks EXCEPT ![t] = NewTask(last, rid)], rid,
                               Append(dispatched, last))
    ELSE [pending |-> pending, in_flight |-> in_flight, tasks |-> tasks,
          dispatched |-> dispatched]

\* while len(in_flight) < max_parallel_extractions and pending:
\* task = pending.pop(0); submit it.  dispatched: the files in the order of
\* their executor.submit calls
RECURSIVE DispatchAll(_, _, _, _, _)
DispatchAll(pending, in_flight, tasks, rid, dispatched) ==
    IF Cardinality(in_flight) < max_parallel_extractions /\ pending # <<>>
    THEN LET busy == {p[1] : p \in in_flight}
             t == CHOOSE x \in (1..max_parallel_extractions) \ busy :
                     \A y \in (1..max_parallel_extractions) \ busy : x <= y
         IN DispatchAll(Tail(pending), in_flight \cup {<<t, Head(pending)>>},
                        [tasks EXCEPT ![t] = NewTask(Head(pending), rid)], rid,
                        Append(dispatched, Head(pending)))
    ELSE [pending |-> pending, in_flight |-> in_flight, tasks |-> tasks,
          dispatched |-> dispatched]

ODispatch ==
    /\ run.pc = "dispatch"
    /\ LET d == DispatchAll(run.pending, run.in_flight, task, run.run_id,
                            run.dispatched)
       IN /\ run' = [run EXCEPT !.pc = "collect", !.pending = d.pending,
                                !.in_flight = d.in_flight,
                                !.dispatched = d.dispatched]
          /\ task' = d.tasks
    /\ UNCHANGED <<storeVars, fs, submitted, jan, raw, spec_hash, hist>>
    /\ UNCHANGED extractVars

\* the results of the finished futures, in the order of their workers
RECURSIVE ResultsOf(_, _)
ResultsOf(done, t) ==
    IF t > max_parallel_extractions THEN <<>>
    ELSE (IF \E p \in done : p[1] = t /\ task[t].pc = "done"
          THEN LET p == CHOOSE q \in done : q[1] = t
               IN <<[Result(p[2], ExtractionResult_fields) EXCEPT !.rows = task[t].rows]>>
          ELSE <<>>) \o ResultsOf(done, t + 1)

\* a collect step that puts the file of a failed extraction back on the
\* pending list
OCollectRequeue ==
    /\ run.pc = "collect"
    /\ LET done == {p \in run.in_flight : ~Running(p[1])}
           failed == {p[2] : p \in {q \in done : task[q[1]].pc = "failed"}}
       IN /\ run' = [run EXCEPT !.pc = "commit",
                                !.in_flight = @ \ done,
                                !.buffer = @ \o ResultsOf(done, 1),
                                !.pending = @ \o SelectSeq(DiscoverFiles(raw, spec_hash),
                                                           LAMBDA k : k \in failed)]
          /\ task' = [t \in TaskIds |->
                        IF \E p \in done : p[1] = t THEN FreeTask ELSE task[t]]
    /\ UNCHANGED <<storeVars, fs, submitted, jan, raw, spec_hash, hist>>
    /\ UNCHANGED extractVars

\* a collect step that pops the finished futures and drops their results
OCollectLosesResults ==
    /\ run.pc = "collect"
    /\ LET done == {p \in run.in_flight : ~Running(p[1])}
       IN /\ run' = [run EXCEPT !.pc = "commit",
                                !.in_flight = @ \ done,
                                !.failed = @ \cup {p[2] : p \in
                                              {q \in done : task[q[1]].pc = "failed"}}]
          /\ task' = [t \in TaskIds |->
                        IF \E p \in done : p[1] = t THEN FreeTask ELSE task[t]]
    /\ UNCHANGED <<storeVars, fs, submitted, jan, raw, spec_hash, hist>>
    /\ UNCHANGED extractVars

\* if in_flight: wait(..., timeout=0.1, FIRST_COMPLETED); for fut in done:
\* pop it; append its result, or log its exception
OCollect ==
    /\ run.pc = "collect"
    /\ LET done == {p \in run.in_flight : ~Running(p[1])}
       IN /\ run' = [run EXCEPT !.pc = "commit",
                                !.in_flight = @ \ done,
                                !.buffer = @ \o ResultsOf(done, 1),
                                !.failed = @ \cup {p[2] : p \in
                                              {q \in done : task[q[1]].pc = "failed"}}]
          /\ task' = [t \in TaskIds |->
                        IF \E p \in done : p[1] = t THEN FreeTask ELSE task[t]]
    /\ UNCHANGED <<storeVars, fs, submitted, jan, raw, spec_hash, hist>>
    /\ UNCHANGED extractVars

\* a commit decision that fires as soon as one result is buffered
ShouldCommitAnyBuffered == Len(run.buffer) > 0

\* a commit decision that knows the size threshold and the latency only
ShouldCommitNoDrain ==
    \/ Len(run.buffer) >= batch_loading_size
    \/ Len(run.buffer) > 0 /\ run.stale

\* is_full or is_stale or is_done
ShouldCommit ==
    \/ Len(run.buffer) >= batch_loading_size
    \/ Len(run.buffer) > 0 /\ run.stale
    \/ Len(run.buffer) > 0 /\ run.pending = <<>> /\ run.in_flight = {}

\* a loop without try/finally: an exception leaves run() at once
LoopRaisesUnguarded == "exit"

\* try: while ...: ... finally: cleanup_after_commit: an exception raised in
\* the loop body passes through the finally block
LoopRaises == "finally"

\* plan_load raises when the bundle of a result has no manifest
LoadPlanRaises ==
    \E i \in 1..Len(run.buffer) : ~IsCompleteBundleDir(fs.final[run.buffer[i].file_key])

\* load_plans of _commit_batch: every data artifact goes to <catalog>.bronze.<source>
LoadPlans == << <<T1, [i \in 1..Len(run.buffer) |-> "p1"]>> >>

\* file_targets of _commit_batch
FileTargets == [k \in {run.buffer[i].file_key : i \in 1..Len(run.buffer)} |-> {T1}]

\* _commit_batch: return at once on an empty buffer (the caller then clears the
\* buffer and resets last_commit_time); else plan the loads and call
\* store.commit_batch.  run() has no
\* except clause around it: an exception goes to the finally block and then
\* out of run().  The call omits the keyword table_partition_configs, so it
\* raises TypeError before the body of commit_batch is entered; the lines
\* after the call (post-commit cleanup, buffer.clear()) are never reached.
OCommit ==
    /\ run.pc = "commit"
    /\ ShouldCommit
    /\ IF run.buffer = <<>>
       THEN /\ UNCHANGED storeVars
            /\ run' = [run EXCEPT !.pc = IF run.pending = <<>> /\ run.in_flight = {}
                                         THEN "finally" ELSE "dispatch",
                                  !.stale = FALSE, !.aged = FALSE]
       ELSE IF LoadPlanRaises
       THEN /\ UNCHANGED storeVars
            /\ run' = [run EXCEPT !.pc = LoopRaises, !.raising = TRUE]
       ELSE /\ CommitBatchEnter(run.buffer, LoadPlans, run.run_id, FileTargets,
                                <<>>, OrchestratorKwargs)
            /\ run' = [run EXCEPT !.pc = IF outcome' = "raised" THEN LoopRaises
                                                                ELSE "in_commit",
                                  !.raising = (outcome' = "raised")]
    /\ UNCHANGED <<fsVars, raw, spec_hash, hist>>
    /\ UNCHANGED extractVars

\* no commit is due: break when nothing is pending or in flight, else sleep
ONoCommit ==
    /\ run.pc = "commit"
    /\ ~ShouldCommit
    /\ run' = [run EXCEPT !.pc = IF run.pending = <<>> /\ run.in_flight = {}
                                 THEN "finally" ELSE "dispatch"]
    /\ UNCHANGED <<storeVars, fsVars, raw, spec_hash, hist>>
    /\ UNCHANGED extractVars

\* batch_loading_max_latency_seconds have passed since last_commit_time
OLatencyElapses ==
    /\ run.pc \in {"dispatch", "collect", "commit"}
    /\ ~run.stale
    /\ run' = [run EXCEPT !.stale = TRUE]
    /\ UNCHANGED <<storeVars, fsVars, raw, spec_hash, hist>>
    /\ UNCHANGED extractVars

\* the first result of the buffer was appended after last_commit_time: the
\* latency has passed since then only when it has passed since last_commit_time
OBufferAges ==
    /\ run.pc \in {"dispatch", "collect", "commit"}
    /\ run.buffer # <<>>
    /\ run.stale
    /\ ~run.aged
    /\ run' = [run EXCEPT !.aged = TRUE]
    /\ UNCHANGED <<storeVars, fsVars, raw, spec_hash, hist>>
    /\ UNCHANGED extractVars

\* finally: cleanup_after_commit(run_id)
OFinally ==
    /\ run.pc = "finally"
    /\ fs' = CleanupAfterCommit(fs, run.run_id)
    /\ run' = [run EXCEPT !.pc = "exit"]
    /\ UNCHANGED <<storeVars, task, submitted, jan, raw, spec_hash, hist>>
    /\ UNCHANGED extractVars

\* the with block is left: the executor waits for the submitted tasks, the
\* store is closed, run() returns or the exception reaches the caller
OExit ==
    /\ run.pc = "exit"
    /\ \A p \in run.in_flight : ~Running(p[1])
    /\ task' = [t \in TaskIds |-> FreeTask]
    /\ hist' = [hist EXCEPT !.ended = IF run.raising THEN "raised" ELSE "returned",
                            !.hash = spec_hash,
                            !.pending0 = run.pending0,
                            !.failed = run.failed,
                            !.attempted =
                                IF run.raising
                                THEN {run.buffer[i].file_key : i \in 1..Len(run.buffer)}
                                ELSE {}]
    /\ run' = IdleRun
    /\ UNCHANGED <<storeVars, fs, submitted, jan, raw, spec_hash>>
    /\ UNCHANGED extractVars

\* the process and its workers are killed
OKill ==
    /\ run.pc # "idle"
    /\ task' = [t \in TaskIds |-> FreeTask]
    /\ hist' = [hist EXCEPT !.ended = "killed", !.hash = spec_hash,
                            !.pending0 = run.pending0, !.failed = run.failed,
                            !.attempted = {}]
    /\ run' = IdleRun
    /\ UNCHANGED <<storeVars, fs, submitted, jan, raw, spec_hash>>
    /\ UNCHANGED extractVars

\* the specification of the source is edited between two runs
OChangeSpec ==
    /\ run.pc = "idle"
    /\ hist.runs >= 1
    /\ spec_hash = "h1"
    /\ spec_hash' = "h2"
    /\ UNCHANGED <<storeVars, fsVars, raw, run, hist>>
    /\ UNCHANGED extractVars

\* main() passes the same run id to every run; os.replace of the promotion
\* meets no PermissionError here
Next ==
    \/ OStartRun(MainRunId)
    \/ ODispatch
    \/ OCollect
    \/ OCommit
    \/ ONoCommit
    \/ OLatencyElapses
    \/ OBufferAges
    \/ OFinally
    \/ OExit
    \/ OKill
    \/ OChangeSpec
    \/ \E t \in 1..max_parallel_extractions : ExtractStep(t, {FALSE})

(***************************************************************************)
(* SpecSolo: one extraction task at a time, on the file f1 or on the       *)
(* malformed file f3, in a staging tree that is empty or holds what an     *)
(* interrupted removal left of the final bundle of f1; the promotion can   *)
(* meet PermissionError at every attempt; the worker can be killed between *)
(* two steps.                                                              *)
(***************************************************************************)
SoloKeys == {K1, K3}

SoloNext ==
    \/ \E k \in SoloKeys, rid \in RunIds : Submit(1, k, rid)
    \/ ExtractStep(1, BOOLEAN)
    \/ WManifestOpen(1)
    \/ TrashStep(1)
    \/ TaskCrash(1)

(***************************************************************************)
(* SpecManifest: extraction tasks of any run on the file f1, two at a      *)
(* time, whose write of the manifest payload takes two steps (the file is  *)
(* opened, the payload is written); a worker can be killed between two     *)
(* steps.                                                                  *)
(***************************************************************************)
ManifestNext ==
    \/ \E t \in Workers, rid \in RunIds : Submit(t, K1, rid)
    \/ \E t \in Workers : ExtractStep(t, {FALSE})
    \/ \E t \in Workers : WManifestOpen(t)
    \/ \E t \in Workers : WManifestTmp(t, TRUE)
    \/ \E t \in Workers : TrashStep(t)
    \/ \E t \in Workers : TaskCrash(t)

(***************************************************************************)
(* SpecRun: Orchestrator.run, run after run, over a data_dir of three      *)
(* files (more files than workers) or of one malformed file; no process   *)
(* is killed.                                                              *)
(***************************************************************************)
RunRawDirs == {{"f1", "f2", "f3"}, {"f1", "f2", "f4"}, {"f3"}}

RunNext ==
    \/ OStartRun(MainRunId)
    \/ ODispatch
    \/ OCollect
    \/ OCommit
    \/ ONoCommit
    \/ OLatencyElapses
    \/ OBufferAges
    \/ OFinally
    \/ OExit
    \/ OChangeSpec
    \/ \E t \in 1..max_parallel_extractions : ExtractStep(t, {FALSE})

(***************************************************************************)
(* Specifications                                                          *)
(***************************************************************************)
\* a fresh ledger, an empty staging root, a data_dir
Init == StoreInit /\ FsInit({EmptyFs}) /\ OrchInit(RawDirs) /\ NoHeader

Spec == Init /\ [][Next]_vars

StoreOnlyInit == StoreInit /\ FsInit({EmptyFs}) /\ OrchInit({{}}) /\ NoHeader

SpecStore == StoreOnlyInit /\ [][StoreNext]_vars

FsOnlyInit == StoreInit /\ FsInit({EmptyFs, SeededFs}) /\ OrchInit({{}}) /\ NoHeader

FsTreesInit ==
    StoreInit /\ FsInit({EmptyFs, SeededFs, StaleTmpFs}) /\ OrchInit({{}}) /\ NoHeader

SpecFS == FsTreesInit /\ [][FsNext]_vars

RunInit == StoreInit /\ FsInit({EmptyFs}) /\ OrchInit(RunRawDirs) /\ NoHeader

SpecRun == RunInit /\ [][RunNext]_vars

\* the coordinating thread of a run that has started keeps running, and so
\* does every worker process that has a task
RunThread == ODispatch \/ OCollect \/ OCommit \/ ONoCommit \/ OFinally \/ OExit

RunFairness ==
    /\ WF_vars(RunThread)
    /\ \A t \in 1..max_parallel_extractions : WF_vars(ExtractStep(t, {FALSE}))

SpecRunLive == RunInit /\ [][RunNext]_vars /\ RunFairness

\* SpecLater: the bundle of f1 is in the final zone; a client of the store
\* checkpoints f1 with commit_batch (every keyword supplied, a result that
\* carries data_snapshot_date) while no run is under way, which leaves what a
\* run killed between its commit and its bundle deletion leaves; runs of the
\* orchestrator over the directory {f1, f3} come before and after.
ClientCommit ==
    /\ run.pc = "idle"
    /\ CommitBatchCall(<<Result(K1, Dated)>>, << <<T1, <<"p1">>>> >>, "rA", FT1,
                       <<>>, commit_batch_kwonly)

LaterNext ==
    \/ ClientCommit
    \/ TxNextTable
    \/ TxEnsure
    \/ TxInsert
    \/ TxCheckpoint
    \/ TxLineage
    \/ TxCommit
    \/ OStartRun(MainRunId)
    \/ ODispatch
    \/ OCollect
    \/ OCommit
    \/ ONoCommit
    \/ OLatencyElapses
    \/ OBufferAges
    \/ OFinally
    \/ OExit
    \/ \E t \in 1..max_parallel_extractions : ExtractStep(t, {FALSE})

LaterInit ==
    StoreInit /\ FsInit({EmptyFs, ExtractedFs}) /\ OrchInit({{"f1", "f3"}}) /\ NoHeader

\* runs keep being started, and a run that has started keeps running
LaterFairness == RunFairness /\ WF_vars(OStartRun(MainRunId))

SpecLater == LaterInit /\ [][LaterNext]_vars /\ LaterFairness

SoloInit == StoreInit /\ FsInit({EmptyFs, LeftoverFs}) /\ OrchInit({{}}) /\ NoHeader

SpecSolo == SoloInit /\ [][SoloNext]_vars

SpecManifest == FsOnlyInit /\ [][ManifestNext]_vars

HeaderInit ==
    /\ StoreInit
    /\ FsInit({EmptyFs})
    /\ OrchInit({{}})
    /\ ExtractorInit(RawHeaderLists, CsvSpecs, "header")

SpecHeader == HeaderInit /\ [][HeaderNext]_vars

StreamOnlyInit ==
    /\ StoreInit
    /\ FsInit({EmptyFs})
    /\ OrchInit({{}})
    /\ StreamInit(RawFiles, 1..MaxHeaderLen)

SpecStream == StreamOnlyInit /\ [][StreamNext]_vars

(***************************************************************************)
(* Claims settled under SpecStore                                          *)
(***************************************************************************)
\* C5: atomic commit. When a commit_batch call has ended by raising, whatever
\* step failed (binding, table ensure/evolve, data insert, checkpoint insert,
\* lineage insert, COMMIT), the target tables, loaded_files and
\* loaded_file_targets are exactly what they were when the call was entered.
C5_AtomicCommit ==
    (txPc = "idle" /\ outcome = "raised") => Db = before

\* C5 witness: a call that failed at the checkpoint step, after its data
\* inserts, has been rolled back.
C5_Witness ==
    /\ txPc = "idle"
    /\ outcome = "raised"
    /\ failed_at = "checkpoint"
    /\ clock = 2
    /\ before.target_tables[T1].exists

\* C6: every lineage row has a checkpoint row of the same FileKey carrying the
\* same run id and the same commit timestamp, in every state (inside a
\* transaction too).
C6_LineageHasCheckpoint ==
    \A i \in 1..Len(loaded_file_targets) :
        \E j \in 1..Len(loaded_files) :
            /\ loaded_files[j].file_key = loaded_file_targets[i].file_key
            /\ loaded_files[j].run_id = loaded_file_targets[i].run_id
            /\ loaded_files[j].loaded_at_utc = loaded_file_targets[i].loaded_at_utc

\* C6 witness: a committed batch of one file whose file_targets argument also
\* names another file; lineage was written for two target tables.
C6_Witness ==
    /\ txPc = "idle"
    /\ outcome = "committed"
    /\ Len(loaded_files) = 1
    /\ Len(loaded_file_targets) = 2

(***************************************************************************)
(* Claims settled under SpecFS                                             *)
(***************************************************************************)
\* C9: in every reachable state a directory that exists at a final-zone
\* bundle path contains the manifest bundle.json.
C9_FinalHasManifest ==
    \A k \in FileKey : fs.final[k] # Absent => Manifest \in fs.final[k]

LastRunDidAllItsWork ==
    /\ hist.ended \in {"returned", "raised"}
    /\ hist.failed = {}
    /\ hist.attempted = hist.pending0

\* C3: idempotent re-run. After a run that went to its end with every
\* discovered file extracted and handed to the commit, a second run over the
\* same files and the same specification computes an empty pending set.
C3_SecondRunPendingEmpty ==
    (hist.runs >= 2 /\ run.pc # "idle" /\ LastRunDidAllItsWork /\ hist.hash = spec_hash)
        => run.pending0 = {}

\* C4: the spec hash forces reprocessing. Once the run that follows a change
\* of the specification to hash h2 has gone to its end with every pending file
\* extracted and handed to the commit, every file of data_dir has a checkpoint
\* row under its FileKey with h2.
C4_ReprocessedUnderNewHash ==
    (run.pc = "idle" /\ spec_hash = "h2" /\ hist.hash = "h2" /\ LastRunDidAllItsWork)
        => \A sig \in raw : MkKey(sig, "h2") \in CompletedFileKeys

\* C7: a failure of commit_batch does not make run() raise to its caller.
C7_RunDoesNotRaise ==
    ~run.raising /\ hist.ended # "raised"

\* C8: a failed extraction is contained. When a run in which an extraction
\* failed has gone to its end, it has returned without raising, the failed file
\* has no checkpoint row and every other file it found pending has one.
C8_FailedExtractionContained ==
    (run.pc = "idle" /\ hist.ended \in {"returned", "raised"} /\ hist.failed # {})
        => /\ hist.ended = "returned"
           /\ \A k \in hist.failed : k \notin CompletedFileKeys
           /\ \A k \in hist.pending0 \ hist.failed : k \in CompletedFileKeys

\* C11: crash recovery. When the run that follows a killed run has gone to its
\* end, no bundle directory is left in the temporary zone, and every file of
\* data_dir without a checkpoint row was in the pending list the run dispatched
\* from.
C11_KilledRunTmpRemoved ==
    [][(run.pc = "exit" /\ run'.pc = "idle" /\ hist.ended = "killed"
            /\ hist'.ended # "killed")
        => /\ \A p \in RunIds \X FileKey : fs'.tmp[p] = Absent
           /\ \A sig \in raw :
                 MkKey(sig, spec_hash) \notin CompletedFileKeys
                     => MkKey(sig, spec_hash) \in run.pending0
      ]_vars

\* C12: trash-pattern promotion. When finalize_tmp_bundle finds a directory at
\* the final path, its next step moves that directory into the trash zone
\* (a new trash entry, the final path free) and never deletes it in place; and
\* when finalize_tmp_bundle returns, the final path holds exactly what the
\* temporary directory held and the temporary directory is gone.
C12_TrashPatternPromotion ==
    [][\A t \in TaskIds :
          /\ (task[t].pc = "fin_trash" /\ task'[t].pc \notin {"fin_trash", "free"}
                 /\ fs.final[task[t].key] # Absent)
                => /\ task'[t].pc = "fin_promote"
                   /\ fs'.final[task[t].key] = Absent
                   /\ fs'.trash = fs.trash + 1
          /\ (task[t].pc = "fin_promote" /\ task'[t].pc = "done")
                => /\ fs'.final[task[t].key] = fs.tmp[TmpPath(task[t].rid, task[t].key)]
                   /\ fs'.tmp[TmpPath(task[t].rid, task[t].key)] = Absent
      ]_vars

\* C13: commit hysteresis. A pass through the commit decision with a buffer
\* that is non-empty and below the size threshold triggers no commit while the
\* maximum latency has not passed since the last commit (the start of the run
\* when it has not committed yet) and work is still pending or in flight.
C13_CommitHysteresis ==
    [][(/\ run.pc = "commit"
        /\ run'.pc \notin {"commit", "idle"}
        /\ Len(run.buffer) > 0
        /\ Len(run.buffer) < batch_loading_size
        /\ ~run.stale
        /\ ~(run.pending = <<>> /\ run.in_flight = {}))
        => (clock' = clock /\ ~run'.raising /\ run'.buffer = run.buffer)
      ]_vars

\* C13 witness: the loop has passed the commit decision with one buffered
\* result, below the threshold, and has not committed: the latency has not
\* passed and an extraction is still in flight.
C13_Witness ==
    /\ run.pc = "dispatch"
    /\ Len(run.buffer) = 1
    /\ Len(run.buffer) < batch_loading_size
    /\ ~run.stale
    /\ run.in_flight # {}
    /\ clock = 0

\* C13 as stated: no commit is triggered, below the threshold and before the
\* drain, until the maximum latency has passed since the first buffered result.
C13_LatencySinceFirstBuffered ==
    [][(/\ run.pc = "commit"
        /\ run'.pc \notin {"commit", "idle"}
        /\ Len(run.buffer) > 0
        /\ Len(run.buffer) < batch_loading_size
        /\ ~run.aged
        /\ ~(run.pending = <<>> /\ run.in_flight = {}))
        => (clock' = clock /\ ~run'.raising /\ run'.buffer = run.buffer)
      ]_vars

\* C14: in a loop iteration the orchestrator calls store.commit_batch if and
\* only if the buffer has reached the size threshold, or it is non-empty and
\* the maximum latency has passed since the last commit, or it is non-empty
\* and nothing is pending or in flight; the store is called from the commit
\* decision alone, and never with an empty batch.
C14_CommitIffDue ==
    [][/\ (run.pc = "commit" /\ run'.pc \notin {"commit", "idle"})
            => ((clock' = clock + 1) <=>
                   \/ Len(run.buffer) >= batch_loading_size
                   \/ Len(run.buffer) > 0 /\ run.stale
                   \/ Len(run.buffer) > 0 /\ run.pending = <<>> /\ run.in_flight = {})
       /\ (clock' # clock) => (run.pc = "commit" /\ run.buffer # <<>>)
      ]_vars

\* C14 witness: store.commit_batch has been called with one buffered result,
\* below the threshold, because the latency had passed, while another
\* extraction was in flight.
C14_Witness ==
    /\ clock = 1
    /\ run.raising
    /\ run.stale
    /\ Len(run.buffer) = 1
    /\ Len(run.buffer) < batch_loading_size
    /\ run.in_flight # {}

\* C27: bundles are deleted after a successful commit only. (a) When the
\* store.commit_batch call of a run has raised, every bundle of the batch is in
\* the final zone with its manifest, and stays so through the finally block
\* until the exception has left run(); (b) no step removes a final bundle
\* directory that holds its manifest, or a file of it, unless the FileKey of
\* the bundle has a checkpoint row.
C27_DeleteOnlyAfterCommit ==
    [][/\ (run'.raising /\ outcome' = "raised")
            => \A i \in 1..Len(run'.buffer) :
                  /\ fs'.final[run'.buffer[i].file_key] # Absent
                  /\ Manifest \in fs'.final[run'.buffer[i].file_key]
       /\ \A k \in FileKey :
              (fs.final[k] # Absent /\ Manifest \in fs.final[k]
                  /\ fs'.final[k] # fs.final[k])
                 => k \in CompletedFileKeys
      ]_vars

\* C27 witness: the commit of a full batch has raised, the finally block has
\* run, and the bundles of the batch are in the final zone with their
\* manifests.
C27_Witness ==
    /\ run.pc = "exit"
    /\ run.raising
    /\ outcome = "raised"
    /\ Len(run.buffer) = batch_loading_size
    /\ \A i \in 1..Len(run.buffer) :
           Manifest \in fs.final[run.buffer[i].file_key]

(***************************************************************************)
(* Schema evolution (SpecStore)                                            *)
(***************************************************************************)
\* every column of the table is a column of the artifact, with the same type
SupersetSameTypes(tsch, incoming) ==
    \A c \in SchemaCols(tsch) :
        c \in SchemaCols(incoming) /\ TypeOf(incoming, c) = TypeOf(tsch, c)

\* a column of the artifact is a column of the table with another type
TypeConflict(tsch, incoming) ==
    \E c \in SchemaCols(tsch) \cap SchemaCols(incoming) :
        TypeOf(incoming, c) # TypeOf(tsch, c)

\* C16: schema evolution, additive case. When commit_batch has ensured and
\* loaded a table that existed before the call and whose columns, with their
\* types, are all in the artifact: the table's columns are its former columns
\* and the artifact's, the former columns keep their types, every prior row is
\* still there, in place, with no value (NULL) in the added columns, and the
\* artifact's rows follow them; COMMIT then leaves the tables as they are.
C16_AdditiveEvolution ==
    [][/\ (txPc = "insert" /\ txPc' = "tables"
              /\ txSnap.target_tables[Head(call.todo)[1]].exists
              /\ SupersetSameTypes(txSnap.target_tables[Head(call.todo)[1]].schema,
                                   DescribeParquet(Head(call.todo)[2])))
            => LET t == Head(call.todo)[1]
                   files == Head(call.todo)[2]
                   old == txSnap.target_tables[t]
                   new == target_tables'[t]
                   added == SchemaCols(DescribeParquet(files)) \ SchemaCols(old.schema)
               IN /\ SchemaCols(new.schema) =
                         SchemaCols(old.schema) \cup SchemaCols(DescribeParquet(files))
                  /\ \A c \in SchemaCols(old.schema) :
                         TypeOf(new.schema, c) = TypeOf(old.schema, c)
                  /\ new.rows = old.rows \o ParquetRows(files)
                  /\ \A i \in 1..Len(old.rows) : new.rows[i].cols \cap added = {}
       /\ (txPc = "commit" /\ txPc' = "idle")
            => (outcome' = "committed" /\ target_tables' = target_tables)
      ]_vars

\* C16 witness: a committed call has loaded an artifact with the columns id and
\* extra into a table that had the column id and one row; the table has both
\* columns, the prior row without a value for extra, and the new row.
C16_Witness ==
    /\ txPc = "idle"
    /\ outcome = "committed"
    /\ before.target_tables[T1].exists
    /\ SchemaCols(before.target_tables[T1].schema) = {"id"}
    /\ Len(before.target_tables[T1].rows) = 1
    /\ SchemaCols(target_tables[T1].schema) = {"id", "extra"}
    /\ Len(target_tables[T1].rows) = 2
    /\ target_tables[T1].rows[1] = before.target_tables[T1].rows[1]
    /\ "extra" \notin target_tables[T1].rows[1].cols
    /\ "extra" \in target_tables[T1].rows[2].cols

C24_OrderInTransaction ==
    [][/\ (txPc' = "insert" /\ txPc # "insert")
            => /\ txPc = "ensure"
               /\ call' = call
               /\ target_tables'[Head(call.todo)[1]].exists
               /\ SchemaCols(DescribeParquet(Head(call.todo)[2]))
                      \subseteq SchemaCols(target_tables'[Head(call.todo)[1]].schema)
       /\ \A t \in TargetTables :
              (Len(target_tables'[t].rows) > Len(target_tables[t].rows))
                 => /\ txPc = "insert"
                    /\ Head(call.todo)[1] = t
                    /\ target_tables[t].exists
       /\ (txPc \notin {"idle", "except"} /\ txPc' # "idle" /\ call'.todo # call.todo)
            => /\ call'.todo = Tail(call.todo)
               /\ \/ txPc = "tables" /\ Head(call.todo)[2] = <<>>
                  \/ /\ txPc = "insert"
                     /\ target_tables'[Head(call.todo)[1]].rows =
                            target_tables[Head(call.todo)[1]].rows
                                \o ParquetRows(Head(call.todo)[2])
       /\ (txPc' = "checkpoint" /\ txPc # "checkpoint")
            => (txPc = "tables" /\ call.todo = <<>>)
       /\ (Len(loaded_files') > Len(loaded_files))
            => (txPc = "checkpoint" /\ call.todo = <<>>)
       /\ (Len(loaded_file_targets') > Len(loaded_file_targets))
            => (txPc = "lineage" /\ call.todo = <<>>)
      ]_vars

\* C24 witness: a transaction whose load plan names two tables has inserted
\* into both and has then written its checkpoint row; the lineage is next.
C24_Witness ==
    /\ txPc = "lineage"
    /\ Len(loaded_files) > Len(txSnap.loaded_files)
    /\ \A t \in TargetTables :
           Len(target_tables[t].rows) > Len(txSnap.target_tables[t].rows)

(***************************************************************************)
(* Claims settled under SpecHeader and SpecStream                          *)
(***************************************************************************)
\* C33: record reassembly. Each physical line is appended to the buffer; a
\* line that leaves the buffer empty is skipped; otherwise the buffer is split
\* by quote+delimiter+quote: with fewer parts than expected the buffer is kept
\* and nothing is emitted, with exactly as many one record is emitted and the
\* buffer is emptied, with more the extraction raises and emits nothing; and
\* every emitted record has exactly the expected number of columns.
C33_RecordReassembly ==
    [][(extractor.pc = "stream" /\ extractor.line_no < Len(extractor.file))
        => LET buffer == extractor.buffer \o extractor.file[extractor.line_no + 1]
               n == Len(Split(buffer, complex_delimiter_b))
               expected == extractor.expected_number_of_columns
           IN /\ extractor'.line_no = extractor.line_no + 1
              /\ (buffer = <<>> \/ n < expected)
                    => /\ extractor'.buffer = buffer
                       /\ extractor'.yielded = extractor.yielded
                       /\ extractor'.pc = "stream"
              /\ (buffer # <<>> /\ n = expected)
                    => /\ extractor'.buffer = <<>>
                       /\ Len(extractor'.yielded) = Len(extractor.yielded) + 1
                       /\ SubSeq(extractor'.yielded, 1, Len(extractor.yielded))
                             = extractor.yielded
                       /\ extractor'.pc = "stream"
              /\ (buffer # <<>> /\ n > expected)
                    => /\ extractor'.pc = "raised"
                       /\ extractor'.yielded = extractor.yielded
              /\ \A i \in 1..Len(extractor'.yielded) :
                    NumColumns(extractor'.yielded[i]) = expected
      ]_vars

\* C33 witness: a record of two columns was reassembled from two physical
\* lines and emitted, and a later line has given the buffer too many parts.
C33_Witness ==
    /\ extractor.pc = "raised"
    /\ extractor.expected_number_of_columns = 2
    /\ Len(extractor.yielded) = 1
    /\ extractor.yielded_from[1] \notin PhysicalLines
    /\ Len(Split(extractor.buffer, complex_delimiter_b)) > 2

\* the bytes of a byte string that are neither quote nor delimiter
IsFieldByte(b) == b \notin {Q, D, INTERNAL_DELIMITER_BYTE, LF}

FieldBytes(bytes) == SelectSeq(bytes, IsFieldByte)

\* C40: no silent drop. The physical lines read so far are, in their order,
\* the buffers the emitted records were cut from followed by the buffer still
\* held; every emitted record carries the field bytes of the buffer it was cut
\* from; and the generator is exhausted without an error only when every line
\* was read and the buffer is empty, so that a non-empty incomplete record
\* left at end of file raises instead of being discarded.
C40_NoSilentDrop ==
    extractor.pc \in {"stream", "exhausted", "raised"}
        => /\ Concat(SubSeq(extractor.file, 1, extractor.line_no))
                 = Concat(extractor.yielded_from) \o extractor.buffer
           /\ Len(extractor.yielded) = Len(extractor.yielded_from)
           /\ \A i \in 1..Len(extractor.yielded) :
                 FieldBytes(extractor.yielded[i]) = FieldBytes(extractor.yielded_from[i])
           /\ extractor.pc = "exhausted"
                 => /\ extractor.line_no = Len(extractor.file)
                    /\ extractor.buffer = <<>>

\* C40 witness: one record was emitted, every line was read, and the end of
\* file has raised on a trailing buffer with fewer parts than expected.
C40_Witness ==
    /\ extractor.pc = "raised"
    /\ extractor.line_no = Len(extractor.file)
    /\ Len(extractor.yielded) = 1
    /\ extractor.buffer # <<>>
    /\ Len(Split(extractor.buffer, complex_delimiter_b))
          < extractor.expected_number_of_columns

\* C18: header duplicate handling. For every raw header list, once the
\* duplicates are renamed, a token that occurred k times before in the list is
\* the token followed by "." and k, and a token that did not occur before is
\* unchanged, so that ID, ID, Name gives ID, ID.1, Name; and when
\* _get_clean_header raises, a required column is mapped by no token of the
\* raw header, so that a repeated token is never what makes it raise.
C18_DuplicateHeaders ==
    /\ extractor.pc \in {"map", "returned", "raised"}
          => /\ Len(extractor.unique_phys_headers) = Len(raw_headers)
             /\ \A i \in 1..Len(raw_headers) :
                   LET k == Cardinality({j \in 1..(i - 1) : raw_headers[j] = raw_headers[i]})
                   IN extractor.unique_phys_headers[i] =
                          IF k = 0 THEN raw_headers[i]
                          ELSE raw_headers[i] \o "." \o ToString(k)
             /\ raw_headers = <<"ID", "ID", "Name">>
                   => extractor.unique_phys_headers = <<"ID", "ID.1", "Name">>
    /\ extractor.pc = "raised"
          => \E r \in extractor.spec.required :
                \A i \in 1..Len(raw_headers) :
                    raw_headers[i] \in DOMAIN extractor.spec.header_map
                        => extractor.spec.header_map[raw_headers[i]] # r

\* C18 witness: the header ID, ID, Name of a file whose specification maps no
\* column has been resolved to ID, ID.1, Name without an error.
C18_Witness ==
    /\ raw_headers = <<"ID", "ID", "Name">>
    /\ extractor.pc = "returned"
    /\ extractor.final_headers = <<"ID", "ID.1", "Name">>

\* C39: mapped headers are unique. For every raw header list and every column
\* map, the list _get_clean_header returns has no two equal entries, also when
\* a renamed duplicate meets a literal header (ID, ID, ID.1) and when two raw
\* headers are aliases of one destination column.
C39_MappedHeadersUnique ==
    extractor.pc = "returned"
        => \A i, j \in 1..Len(extractor.final_headers) :
              i # j => extractor.final_headers[i] # extractor.final_headers[j]

(***************************************************************************)
(* Claims settled under SpecManifest                                       *)
(***************************************************************************)
\* C19: manifest atomicity. In every reachable state, crashes included, no
\* bundle directory of the temporary zone or of the final zone holds a
\* bundle.json that is short of its payload: the canonical manifest path does
\* not exist or holds the complete payload.
C19_ManifestNeverPartial ==
    /\ \A p \in RunIds \X FileKey : ManifestPartial \notin fs.tmp[p]
    /\ \A k \in FileKey : ManifestPartial \notin fs.final[k]

(***************************************************************************)
(* Claims settled under SpecSolo                                           *)
(***************************************************************************)
\* C21: failure of an extraction task. When execute_extraction_task ends by
\* raising, its temporary bundle directory is gone and the final bundle path
\* holds what it held when the task began.
C21_FailureLeavesFinalUntouched ==
    [][\A t \in TaskIds :
          (task[t].pc = "except" /\ task'[t].pc = "failed")
            => /\ fs'.tmp[TmpPath(task[t].rid, task[t].key)] = Absent
               /\ fs'.final[task[t].key] = task[t].final0
      ]_vars

(***************************************************************************)
(* Claims settled under SpecRun                                            *)
(***************************************************************************)
\* the extraction tasks of the run that have not finished
Extracting == {p \in run.in_flight : Running(p[1])}

\* C22: bounded concurrency. In every reachable state of a run the number of
\* in-flight extraction tasks (futures the run has submitted and not yet
\* collected) is at most max_parallel_extractions, and so is the number of
\* extraction tasks that are executing.
C22_BoundedInFlight ==
    /\ Cardinality(run.in_flight) <= max_parallel_extractions
    /\ Cardinality({t \in TaskIds : Running(t)}) <= max_parallel_extractions

\* C22 witness: the worker limit binds: as many tasks are in flight as the
\* limit allows, all of them executing, while a file is still pending.
C22_Witness ==
    /\ Cardinality(run.in_flight) = max_parallel_extractions
    /\ Cardinality(Extracting) = max_parallel_extractions
    /\ run.pending # <<>>

\* C23: end-of-run cleanup. run() is left only through its finally block, after
\* a normal end of the main loop and after an exception raised in the loop
\* body alike: the step that reaches the end of run() is the finally block's,
\* and it applies cleanup_after_commit(run_id) of this run to the staging tree;
\* an exception raised in the loop body goes to the finally block.
C23_CleanupOnEveryExit ==
    [][/\ (run'.pc = "exit" /\ run.pc # "exit")
            => /\ run.pc = "finally"
               /\ fs' = PruneEmptySourceDirectories(
                            CleanupTrash(PruneTmpRunDirs(fs, run.run_id)))
       /\ (run.pc # "idle" /\ run'.pc = "idle" /\ hist'.ended # "killed")
            => run.pc = "exit"
       /\ (run'.raising /\ ~run.raising) => run'.pc = "finally"
      ]_vars

\* C23 witness: the loop body has raised while an extraction was in flight, the
\* finally block has run, and the exception is about to leave run().
C23_Witness ==
    /\ run.pc = "exit"
    /\ run.raising
    /\ run.in_flight # {}

\* C25: FIFO dispatch. The pending list of a run is computed when run() is
\* entered, from the discovered files less the completed keys, and nothing is
\* submitted yet; from then on the files submitted so far, in the order of
\* their submission, followed by the files still pending are that list, and a
\* dispatch step submits exactly the files it takes from the list.
C25_FifoDispatch ==
    [][/\ (run.pc = "idle" /\ run'.pc # "idle")
            => /\ run'.dispatched = <<>>
               /\ run'.pending =
                      PendingOf(DiscoverFiles(raw, spec_hash), CompletedFileKeys)
       /\ (run.pc # "idle" /\ run'.pc # "idle")
            => /\ run'.dispatched \o run'.pending = run.dispatched \o run.pending
               /\ Len(run'.dispatched) >= Len(run.dispatched)
               /\ {p[2] : p \in run'.in_flight \ run.in_flight} =
                      {run'.dispatched[i] :
                          i \in (Len(run.dispatched) + 1)..Len(run'.dispatched)}
               /\ \A p \in run'.in_flight \ run.in_flight :
                      task'[p[1]] = NewTask(p[2], run.run_id)
      ]_vars

\* C25 witness: with two workers and three pending files, the first two files
\* of the list were submitted at once and the third when a worker was free.
C25_Witness ==
    /\ Len(run.dispatched) = 3
    /\ run.dispatched = PendingOf(DiscoverFiles(raw, spec_hash), CompletedFileKeys)
    /\ run.pending = <<>>
    /\ \E t \in TaskIds : <<t, run.dispatched[3]>> \in run.in_flight /\ Running(t)
    /\ Len(run.buffer) = 1

\* the state of a file in a run: Pending (on the pending list), Dispatched (its
\* task is in flight), Failed (its task raised), Buffered (its result is in the
\* buffer; Succeeded is the moment of the collect step that appends it),
\* Committed (it has a checkpoint row, its bundle is in the final zone),
\* BundleDeleted (it has a checkpoint row, its bundle is gone)
FileState(r, files, f, k) ==
    CASE k \in {r.pending[i] : i \in 1..Len(r.pending)} -> "Pending"
      [] \E p \in r.in_flight : p[2] = k -> "Dispatched"
      [] k \in r.failed -> "Failed"
      [] k \in {files[i].file_key : i \in 1..Len(files)} ->
            IF f.final[k] # Absent THEN "Committed" ELSE "BundleDeleted"
      [] k \in {r.buffer[i].file_key : i \in 1..Len(r.buffer)} -> "Buffered"
      [] OTHER -> "None"

\* the transitions of the per-file state machine
FileTransitions ==
    { <<"Pending", "Dispatched">>, <<"Dispatched", "Buffered">>,
      <<"Dispatched", "Failed">>, <<"Buffered", "Committed">>,
      <<"Committed", "BundleDeleted">> }

\* C26: per-file state machine. Within one run every file that was pending at
\* the start of the run is in one of the states Pending, Dispatched, Failed,
\* Buffered, Committed, BundleDeleted; a step of the run leaves its state as it
\* is or takes one of the transitions Pending -> Dispatched, Dispatched ->
\* Buffered (the extraction succeeded), Dispatched -> Failed, Buffered ->
\* Committed, Committed -> BundleDeleted; no file is submitted twice in a run.
C26_FileStateMachine ==
    [][/\ (run.pc # "idle" /\ run'.pc # "idle")
            => \A k \in FileKey :
                  LET a == FileState(run, loaded_files, fs, k)
                      b == FileState(run', loaded_files', fs', k)
                  IN /\ a = b \/ <<a, b>> \in FileTransitions
                     /\ (k \in run.pending0) <=> a # "None"
       /\ \A i, j \in 1..Len(run'.dispatched) :
              run'.dispatched[i] = run'.dispatched[j] => i = j
      ]_vars

\* C26 witness: in one run a file has failed, another is buffered and a third
\* is being extracted.
C26_Witness ==
    /\ run.pc # "idle"
    /\ \E k1, k2, k3 \in run.pending0 :
          /\ FileState(run, loaded_files, fs, k1) = "Failed"
          /\ FileState(run, loaded_files, fs, k2) = "Buffered"
          /\ FileState(run, loaded_files, fs, k3) = "Dispatched"
          /\ \E t \in TaskIds : <<t, k3>> \in run.in_flight /\ Running(t)

\* the collections of a run that hold the file k: the pending queue, the
\* in-flight map, the result buffer, the files committed since the run
\* started, the files whose extraction raised
HoldersOf(k) ==
    {c \in {"pending", "in_flight", "buffer", "committed", "failed"} :
        \/ c = "pending" /\ \E i \in 1..Len(run.pending) : run.pending[i] = k
        \/ c = "in_flight" /\ \E p \in run.in_flight : p[2] = k
        \/ c = "buffer" /\ \E i \in 1..Len(run.buffer) : run.buffer[i].file_key = k
        \/ c = "committed" /\ k \in CompletedFileKeys /\ k \in run.pending0
        \/ c = "failed" /\ k \in run.failed}

\* C35: conservation of work. At every point of a run, each file that was
\* pending when the run started is in exactly one of the pending queue, the
\* in-flight map, the result buffer, the files committed in this run and the
\* files whose extraction failed, and it occurs there once; no other file is
\* in any of them.
C35_ConservationOfWork ==
    run.pc # "idle"
      => /\ \A k \in FileKey :
               Cardinality(HoldersOf(k)) = IF k \in run.pending0 THEN 1 ELSE 0
         /\ \A i, j \in 1..Len(run.pending) :
               run.pending[i] = run.pending[j] => i = j
         /\ \A i, j \in 1..Len(run.buffer) :
               run.buffer[i].file_key = run.buffer[j].file_key => i = j
         /\ \A p, q \in run.in_flight : p[2] = q[2] => p = q

\* C35 witness: three files were pending at the start of the run; one is in
\* the buffer, one is in flight, and the last one, which had to wait in the
\* pending queue, has failed.
C35_Witness ==
    /\ run.pc = "commit"
    /\ Cardinality(run.pending0) = 3
    /\ run.pending = <<>>
    /\ Len(run.buffer) = 1
    /\ Cardinality(run.in_flight) = 1
    /\ Len(run.dispatched) = 3
    /\ run.failed = {run.dispatched[3]}

\* "artifacts": [{"relpath": artifact_relpath, ...}] of every manifest
ManifestArtifacts == {DataFile}

\* C37: manifest artifacts exist. In every reachable state, a bundle directory
\* of the final zone or of the temporary zone that holds a manifest holds
\* every artifact the manifest lists, for files with data rows and for files
\* with a header and no data row alike.
C37_ManifestArtifactsExist ==
    /\ \A k \in FileKey :
          IsCompleteBundleDir(fs.final[k]) => ManifestArtifacts \subseteq fs.final[k]
    /\ \A p \in RunIds \X FileKey :
          IsCompleteBundleDir(fs.tmp[p]) => ManifestArtifacts \subseteq fs.tmp[p]

C29_PromotionRetry ==
    [][\A t \in TaskIds :
          /\ task'[t].attempt < max_retries
          /\ (task[t].pc = "fin_promote" /\ task'[t].pc = "fin_promote"
                 /\ task'[t].attempt # task[t].attempt)
                => /\ task'[t].attempt = task[t].attempt + 1
                   /\ task'[t].error = "PermissionError"
                   /\ fs' = fs
          /\ (task[t].pc = "fin_promote" /\ task'[t].pc = "except")
                => \/ task'[t].error = "OSError"
                   \/ /\ task'[t].error = "PermissionError"
                      /\ task[t].attempt = max_retries - 1
          /\ (task[t].pc = "fin_promote" /\ task[t].attempt = max_retries - 1
                 /\ task'[t] # task[t])
                => task'[t].pc \in {"except", "done", "free"}
          /\ (task[t].pc = "except" /\ task'[t] # task[t] /\ task'[t].pc # "free")
                => /\ task'[t].pc = "failed"
                   /\ fs'.tmp[TmpPath(task[t].rid, task[t].key)] = Absent
                   /\ fs'.final = fs.final
                   /\ fs'.trash = fs.trash
                   /\ \A u \in TaskIds \ {t} : task'[u] = task[u]
      ]_vars

\* C29 witness: ten attempts of the promotion have raised PermissionError and
\* the task is about to remove its temporary directory and raise.
C29_Witness ==
    \E t \in TaskIds :
        /\ task[t].pc = "except"
        /\ task[t].error = "PermissionError"
        /\ fs.tmp[TmpPath(task[t].rid, task[t].key)] # Absent

\* every existing directory and bundle lies in directories that exist
TreeConsistent(f) ==
    /\ f.dirs # {} => StagingRoot \in f.dirs
    /\ TmpSource \in f.dirs => TmpRoot \in f.dirs
    /\ \A r \in RunIds : RunDir(r) \in f.dirs => TmpSource \in f.dirs
    /\ \A r \in RunIds, k \in FileKey :
          f.tmp[TmpPath(r, k)] # Absent => RunDir(r) \in f.dirs
    /\ \A k \in FileKey : f.final[k] # Absent => SourceDir \in f.dirs
    /\ f.trash > 0 => TrashRoot \in f.dirs

C31_CleanupScopedToRun ==
    [][(jan.pc \in {"prune_tmp", "trash", "trash_mkdir", "prune_sources"}
          /\ jan'.pc # jan.pc)
        => \A B \in RunIds :
              (jan.pc = "prune_tmp" => B # jan.rid)
                => /\ RunDir(B) \in fs'.dirs <=> RunDir(B) \in fs.dirs
                   /\ RunDir(B) \in fs.dirs => TmpSource \in fs'.dirs
                   /\ \A k \in FileKey :
                         fs'.tmp[TmpPath(B, k)] = fs.tmp[TmpPath(B, k)]
      ]_vars

\* C31 witness: only the cleanup has acted on a tree with two empty run
\* directories; prune_tmp_run_dirs has removed the directory of its run id
\* and the empty directory of the other run id is still there.
C31_Witness ==
    /\ jan.pc = "trash"
    /\ submitted = 0
    /\ \E A, B \in RunIds :
          /\ RunDir(A) \notin fs.dirs
          /\ RunDir(B) \in fs.dirs
          /\ ~HasEntries(fs, RunDir(B))

\* C32: no shared temporary directory. In every reachable state, two
\* extraction tasks that are running (of one run or of concurrent runs) have
\* been handed different temporary bundle directories.
C32_NoSharedTmpDir ==
    \A t, u \in TaskIds :
        (t # u /\ Running(t) /\ Running(u))
          => TmpPath(task[t].rid, task[t].key) # TmpPath(task[u].rid, task[u].key)

\* C34: run to completion. When every worker process keeps running until its
\* task has finished, a run that has started eventually ends (run() returns
\* or raises); a run that returns has an empty pending queue and an empty
\* in-flight map; and the coordinating thread never waits for a task to
\* finish: whatever the tasks in flight are doing, it can take its next step.
C34_RunToCompletion ==
    /\ (run.pc # "idle") ~> (run.pc = "idle")
    /\ [][(run.pc = "exit" /\ run'.pc = "idle" /\ hist'.ended = "returned")
            => run.pending = <<>> /\ run.in_flight = {}]_vars
    /\ [](run.pc # "idle" => ENABLED RunThread)

\* C36: cleanup never breaks a promotion. While a worker is between the
\* ensure_bundle_directory(final_bundle_dir.parent) of finalize_tmp_bundle and
\* its os.replace, the source directory of the final zone exists, and while it
\* is between ensure_bundle_directory(trash_root) and its os.rename into the
\* trash, the trash root exists, whatever cleanup runs at the same time.
C36_CleanupNeverBreaksPromotion ==
    \A t \in TaskIds :
        /\ task[t].pc \in {"fin_check", "fin_trash", "fin_rmtree", "fin_promote"}
              => SourceDir \in fs.dirs
        /\ task[t].pc = "fin_trash" => TrashRoot \in fs.dirs

====
